---- MODULE Spec2Model ----
(***************************************************************************)
(* PromptOps backend: template rendering (backend/api/run.py), prompt      *)
(* execution and translation against the generation provider, and the      *)
(* prompt / version store those handlers read (backend/api/prompts.py).    *)
(*                                                                         *)
(* Text is modelled as a sequence of one-character strings, so that the    *)
(* placeholder regular expression is matched character by character.       *)
(***************************************************************************)
EXTENDS Naturals, Integers, Sequences, FiniteSets, TLC

VARIABLES
    litellm,    \* TRUE when the litellm import of run.py succeeded
    projects,   \* table projects:        id -> row
    prompts,    \* table prompts:         id -> row
    versions,   \* table prompt_versions: id -> row
    clock,      \* datetime.utcnow, as a counter
    req,        \* the in-flight run_prompt / translate_prompt request
    rt, rv, rout, \* renderer harness: template, variables, _render_template output
    tt, tl, tout, \* template harness: template value, language, the last result
    sessions      \* the write requests in progress, one database session for each

vars == <<litellm, projects, prompts, versions, clock, req, rt, rv, rout, tt, tl, tout, sessions>>
storeVars == <<projects, prompts, versions, clock>>
renderVars == <<rt, rv, rout>>
templateVars == <<tt, tl, tout>>

None == "None"      \* Python None in place of a string
NoId == 0           \* Python None in place of a row
\* an optional payload field that is not a string: given with a value, or absent
Some(v) == [some |-> TRUE, v |-> v]
Absent == [some |-> FALSE]

(***************************************************************************)
(* Bounds of the model.                                                    *)
(***************************************************************************)
MaxSegs == 3        \* segments concatenated into a renderer-harness template
MaxChunks == 2      \* chunks a provider stream delivers before it must end
MaxClock == 2
MaxNormalize == 2       \* distinct creation timestamps

(***************************************************************************)
(* Characters and text.                                                    *)
(***************************************************************************)
NameChars == {"a", "b", "7", "_"}        \* members of [a-zA-Z0-9_]
SpaceChars == {" "}                      \* members of \s

RECURSIVE Flatten(_)
Flatten(ss) == IF ss = <<>> THEN <<>> ELSE Head(ss) \o Flatten(Tail(ss))

\* str(x) for the JSON values a variables mapping carries
DigitChar(d) == <<"0", "1", "2", "3", "4", "5", "6", "7", "8", "9">>[d + 1]

RECURSIVE IntStr(_)
IntStr(n) == IF n < 10 THEN <<DigitChar(n)>>
             ELSE IntStr(n \div 10) \o <<DigitChar(n % 10)>>

Str(v) ==
    CASE v.kind = "str" -> v.s
      [] v.kind = "int" -> IntStr(v.n)
      [] v.kind = "null" -> <<"N", "o", "n", "e">>

(***************************************************************************)
(* _render_template: re.sub(r"\{\{\s*([a-zA-Z0-9_]+)\s*\}\}", replace_var) *)
(***************************************************************************)
RECURSIVE SkipSpaces(_, _)
SkipSpaces(t, i) ==
    IF i <= Len(t) /\ t[i] \in SpaceChars THEN SkipSpaces(t, i + 1) ELSE i

RECURSIVE SkipName(_, _)
SkipName(t, i) ==
    IF i <= Len(t) /\ t[i] \in NameChars THEN SkipName(t, i + 1) ELSE i

\* The match of the pattern that starts at position i, if there is one:
\* "{{", greedy \s*, greedy [a-zA-Z0-9_]+ (group 1), greedy \s*, "}}".
\* The three classes are disjoint, so greedy matching never backtracks.
MatchAt(t, i) ==
    IF i + 1 <= Len(t) /\ t[i] = "{" /\ t[i + 1] = "{"
    THEN LET n0 == SkipSpaces(t, i + 2)
             n1 == SkipName(t, n0)
             c0 == SkipSpaces(t, n1)
         IN  IF n1 > n0 /\ c0 + 1 <= Len(t) /\ t[c0] = "}" /\ t[c0 + 1] = "}"
             THEN [ok |-> TRUE, group1 |-> SubSeq(t, n0, n1 - 1), end |-> c0 + 2]
             ELSE [ok |-> FALSE, group1 |-> <<>>, end |-> i]
    ELSE [ok |-> FALSE, group1 |-> <<>>, end |-> i]

MissingMarker(var) == <<"<", "M", "I", "S", "S", "I", "N", "G", ":">> \o var \o <<">">>

\* replace_var that forgets to record the name it could not resolve
replace_var_unreported(var, variables) ==
    IF var \in DOMAIN variables
    THEN [text |-> Str(variables[var]), appended |-> <<>>]
    ELSE [text |-> MissingMarker(var), appended |-> <<>>]

\* replace_var: the replacement text, and the names appended to errors
replace_var(var, variables) ==
    IF var \in DOMAIN variables
    THEN [text |-> Str(variables[var]), appended |-> <<>>]
    ELSE [text |-> MissingMarker(var), appended |-> <<var>>]

\* re.sub scanning from position i: leftmost matches, left to right, the scan
\* resuming after each match, so replacement text is never scanned
RECURSIVE Sub(_, _, _)
Sub(t, i, variables) ==
    IF i > Len(t) THEN [result |-> <<>>, errors |-> <<>>]
    ELSE LET m == MatchAt(t, i)
         IN  IF m.ok
             THEN LET r == replace_var(m.group1, variables)
                      rest == Sub(t, m.end, variables)
                  IN  [result |-> r.text \o rest.result,
                       errors |-> r.appended \o rest.errors]
             ELSE LET rest == Sub(t, i + 1, variables)
                  IN  [result |-> <<t[i]>> \o rest.result, errors |-> rest.errors]

\* _render_template that expands the rendered text once more
_render_template_rescanned(template, variables) ==
    LET first == Sub(template, 1, variables)
        second == Sub(first.result, 1, variables)
    IN  [result |-> second.result, errors |-> first.errors \o second.errors]

\* _render_template that records a name only the first time it is missing
_render_template_distinct(template, variables) ==
    LET r == Sub(template, 1, variables)
        e == r.errors
        K == {k \in 1..Len(e) : \A j \in 1..(k - 1) : e[j] # e[k]}
    IN  [result |-> r.result,
         errors |-> [n \in 1..Cardinality(K) |->
                       e[CHOOSE k \in K : Cardinality({j \in K : j < k}) = n - 1]]]

_render_template(template, variables) == Sub(template, 1, variables)

(***************************************************************************)
(* Bilingual template values (backend/api/prompts.py).  A stored or        *)
(* submitted template is None, a plain string, or a dict keyed by language.*)
(***************************************************************************)
StrT(s) == [kind |-> "str", s |-> s]
DictT(d) == [kind |-> "dict", d |-> d]
NoneT == [kind |-> "none"]
IsDict(x) == x.kind = "dict"
IsStr(x) == x.kind = "str"

\* dict.get(key, default)
Get(d, key, default) == IF key \in DOMAIN d THEN d[key] ELSE default

\* Python truthiness of a text: `x or y` is x unless x is empty
Or(x, y) == IF x # <<>> THEN x ELSE y

\* _normalize_compiled_template with the two languages of a dict exchanged
_normalize_compiled_template_swapped(template) ==
    IF template = NoneT THEN DictT([zh |-> <<>>, en |-> <<>>])
    ELSE IF IsDict(template)
         THEN DictT([zh |-> Get(template.d, "en", <<>>),
                     en |-> Get(template.d, "zh", <<>>)])
    ELSE IF IsStr(template)
         THEN DictT([zh |-> template.s, en |-> <<>>])
    ELSE DictT([zh |-> <<>>, en |-> <<>>])

\* _normalize_compiled_template that returns a plain string as it is
_normalize_compiled_template_string_kept(template) ==
    IF template = NoneT THEN DictT([zh |-> <<>>, en |-> <<>>])
    ELSE IF IsDict(template)
         THEN DictT([zh |-> Get(template.d, "zh", <<>>),
                     en |-> Get(template.d, "en", <<>>)])
    ELSE template

_normalize_compiled_template(template) ==
    IF template = NoneT THEN DictT([zh |-> <<>>, en |-> <<>>])
    ELSE IF IsDict(template)
         THEN DictT([zh |-> Get(template.d, "zh", <<>>),
                     en |-> Get(template.d, "en", <<>>)])
    ELSE IF IsStr(template)
         THEN DictT([zh |-> template.s, en |-> <<>>])
    ELSE DictT([zh |-> <<>>, en |-> <<>>])

\* _get_compiled_template_text that falls back to the other language
_get_compiled_template_text_fallback(template, lang) ==
    IF template = NoneT THEN <<>>
    ELSE IF IsDict(template)
         THEN Or(Get(template.d, lang, <<>>),
                 Get(template.d, IF lang = "zh" THEN "en" ELSE "zh", <<>>))
    ELSE IF IsStr(template)
         THEN IF lang = "zh" THEN template.s ELSE <<>>
    ELSE <<>>

_get_compiled_template_text(template, lang) ==
    IF template = NoneT THEN <<>>
    ELSE IF IsDict(template) THEN Get(template.d, lang, <<>>)
    ELSE IF IsStr(template)
         THEN IF lang = "zh" THEN template.s ELSE <<>>
    ELSE <<>>

(***************************************************************************)
(* The store: tables projects, prompts, prompt_versions (backend/models.py)*)
(***************************************************************************)
ProjectIds == {1, 2}
PromptIds == {1, 2}
VersionIds == {1, 2, 3}

\* the name of the default project, "mo ren xiang mu" in the source (ASCII here)
DefaultProjectName == "MoRenXiangMu"
DefaultVersionNum == "1.0.0"

Project(name) == [name |-> name]
Prompt(name, slug, project_id) == [name |-> name, slug |-> slug, project_id |-> project_id]

\* a version row whose is_published column is set
PromptVersion_published(prompt_id, version_num, compiled_template, config_json, created_at) ==
    [prompt_id |-> prompt_id, version_num |-> version_num,
     compiled_template |-> compiled_template, config_json |-> config_json,
     created_at |-> created_at, is_published |-> TRUE, variables |-> <<>>]

\* a version row as the handlers construct it: is_published=False and
\* variables=[] (prompts.py:166-169, 386-389, 535-538; an imported row without
\* a variables cell has the empty list as well)
PromptVersion(prompt_id, version_num, compiled_template, config_json, created_at) ==
    [prompt_id |-> prompt_id, version_num |-> version_num,
     compiled_template |-> compiled_template, config_json |-> config_json,
     created_at |-> created_at, is_published |-> FALSE, variables |-> <<>>]

\* f with key k bound to v (an insert or an update of a row)
Put(f, k, v) == [x \in DOMAIN f \cup {k} |-> IF x = k THEN v ELSE f[x]]
\* f without the keys in ks (a delete)
Drop(f, ks) == [x \in DOMAIN f \ ks |-> f[x]]

\* prompt.versions: the version rows of a prompt, in storage (primary key) order
RECURSIVE Ascending(_)
Ascending(S) ==
    IF S = {} THEN <<>>
    ELSE LET m == CHOOSE x \in S : \A y \in S : x <= y
         IN  <<m>> \o Ascending(S \ {m})

VersionsOf(vs, prompt_id) ==
    Ascending({v \in DOMAIN vs : vs[v].prompt_id = prompt_id})

\* sorted(..., key=created_at, reverse=True): stable, equal keys keep their order
RECURSIVE InsertDesc(_, _, _)
InsertDesc(vs, sorted, v) ==
    IF sorted = <<>> THEN <<v>>
    ELSE IF vs[Head(sorted)].created_at >= vs[v].created_at
         THEN <<Head(sorted)>> \o InsertDesc(vs, Tail(sorted), v)
         ELSE <<v>> \o sorted

RECURSIVE SortedDesc(_, _, _)
SortedDesc(vs, todo, sorted) ==
    IF todo = <<>> THEN sorted
    ELSE SortedDesc(vs, Tail(todo), InsertDesc(vs, sorted, Head(todo)))

\* _get_latest_version that finds no version
_get_latest_version_none(vs, prompt_id) == NoId

\* _get_latest_version that sorts without reverse=True
_get_latest_version_ascending(vs, prompt_id) ==
    LET own == VersionsOf(vs, prompt_id)
    IN  IF own = <<>> THEN NoId
        ELSE LET sorted == SortedDesc(vs, own, <<>>) IN sorted[Len(sorted)]

\* the id of the latest version of a prompt, None when it has no version
_get_latest_version(vs, prompt_id) ==
    LET own == VersionsOf(vs, prompt_id)
    IN  IF own = <<>> THEN NoId ELSE SortedDesc(vs, own, <<>>)[1]

\* db.query(Prompt).filter(Prompt.slug == slug).first()
PromptBySlug(ps, slug) ==
    IF \E p \in DOMAIN ps : ps[p].slug = slug
    THEN CHOOSE p \in DOMAIN ps :
            /\ ps[p].slug = slug
            /\ \A q \in DOMAIN ps : ps[q].slug = slug => p <= q
    ELSE NoId

\* uuid4: an id no row of the table has
FreshIds(table, pool) == pool \ DOMAIN table

NewId(table, pool) == CHOOSE x \in FreshIds(table, pool) : \A y \in FreshIds(table, pool) : x <= y

\* Python truthiness of an optional string
Falsy(x) == x = None \/ x = ""

EmptyDict == [k \in {} |-> None]

\* _get_or_create_project: the projects table after the call and the project found
\* or created (None for a falsy name); raised when one_or_none() finds several rows
_get_or_create_project(projs, project_name) ==
    LET found == {j \in DOMAIN projs : projs[j].name = project_name}
    IN  IF Falsy(project_name) THEN [projects |-> projs, project |-> NoId, raised |-> FALSE]
        ELSE IF Cardinality(found) > 1
             THEN [projects |-> projs, project |-> NoId, raised |-> TRUE]
        ELSE IF found # {}
             THEN [projects |-> projs, project |-> CHOOSE j \in found : TRUE, raised |-> FALSE]
        ELSE LET j == NewId(projs, ProjectIds)
             IN  [projects |-> Put(projs, j, Project(project_name)), project |-> j,
                  raised |-> FALSE]

\* create_prompt's and import_prompts' fallback when no project name is given:
\* the first project named DefaultProjectName, created when there is none
DefaultProject(projs) ==
    LET found == {j \in DOMAIN projs : projs[j].name = DefaultProjectName}
    IN  IF found # {}
        THEN [projects |-> projs, project |-> CHOOSE j \in found : \A k \in found : j <= k]
        ELSE LET j == NewId(projs, ProjectIds)
             IN  [projects |-> Put(projs, j, Project(DefaultProjectName)), project |-> j]

\* a prompts.project_id column that accepts NULL
NotNullViolation_unenforced(project) == FALSE

\* Column(ForeignKey("projects.id"), nullable=False): a prompt written without
\* a project is refused at the commit (IntegrityError)
NotNullViolation(project) == project = NoId

\* whether a project row would have to be inserted for this name
NeedsNewProject(projs, project_name) ==
    LET name == IF Falsy(project_name) THEN DefaultProjectName ELSE project_name
    IN  \A j \in DOMAIN projs : projs[j].name # name

(***************************************************************************)
(* Write handlers of backend/api/prompts.py.  A handler that raises leaves *)
(* the store as it was: its session is closed without a commit.            *)
(***************************************************************************)
\* POST /api/v1/prompts
create_prompt(payload) ==
    /\ FreshIds(prompts, PromptIds) # {}
    /\ FreshIds(versions, VersionIds) # {}
    /\ NeedsNewProject(projects, payload.project_name) => FreshIds(projects, ProjectIds) # {}
    /\ clock < MaxClock
    /\ LET g == _get_or_create_project(projects, payload.project_name)
           d == IF g.project = NoId THEN DefaultProject(g.projects)
                ELSE [projects |-> g.projects, project |-> g.project]
           p == NewId(prompts, PromptIds)
           v == NewId(versions, VersionIds)
       IN  IF PromptBySlug(prompts, payload.slug) # NoId \/ g.raised
           THEN UNCHANGED storeVars                      \* 400 / 500
           ELSE /\ projects' = d.projects
                /\ prompts' = Put(prompts, p, Prompt(payload.name, payload.slug, d.project))
                /\ versions' = Put(versions, v,
                       PromptVersion(p,
                           IF Falsy(payload.version) THEN DefaultVersionNum ELSE payload.version,
                           _normalize_compiled_template(payload.compiled_template),
                           EmptyDict, clock))
                /\ clock' = clock + 1
    /\ UNCHANGED <<litellm, req, renderVars, templateVars, sessions>>

\* what update_prompt_detail reads and writes in the tables
update_prompt_detail_writes(prompt_id, payload) ==
    /\ prompt_id \notin DOMAIN prompts \/ payload.project_name = None
          \/ ~NeedsNewProject(projects, payload.project_name)
          \/ FreshIds(projects, ProjectIds) # {}
    /\ IF prompt_id \notin DOMAIN prompts
       THEN UNCHANGED storeVars                          \* 404
       ELSE
       LET conflict == payload.slug # None /\
               \E q \in DOMAIN prompts : prompts[q].slug = payload.slug /\ q # prompt_id
           g == IF payload.project_name # None
                THEN _get_or_create_project(projects, payload.project_name)
                ELSE [projects |-> projects, project |-> prompts[prompt_id].project_id,
                      raised |-> FALSE]
           row == [prompts[prompt_id] EXCEPT
                      !.name = IF payload.name # None THEN payload.name ELSE @,
                      !.slug = IF payload.slug # None THEN payload.slug ELSE @,
                      !.project_id = g.project]
           latest == _get_latest_version(versions, prompt_id)
           v == IF latest # NoId THEN latest ELSE NewId(versions, VersionIds)
           base == IF latest # NoId THEN versions[latest]
                   ELSE PromptVersion(prompt_id,
                            IF Falsy(payload.version) THEN DefaultVersionNum ELSE payload.version,
                            _normalize_compiled_template(NoneT), EmptyDict, clock)
           vrow == [base EXCEPT
                      !.version_num = IF payload.version # None THEN payload.version ELSE @,
                      !.compiled_template =
                          IF payload.compiled_template # NoneT
                          THEN _normalize_compiled_template(payload.compiled_template) ELSE @,
                      !.config_json =
                          IF payload.config_json.some THEN payload.config_json.v ELSE @]
       IN  IF conflict \/ g.raised \/ NotNullViolation(g.project)
           THEN UNCHANGED storeVars                      \* 400 / 500
           ELSE /\ latest = NoId => FreshIds(versions, VersionIds) # {} /\ clock < MaxClock
                /\ projects' = g.projects
                /\ prompts' = Put(prompts, prompt_id, row)
                /\ versions' = Put(versions, v, vrow)
                /\ clock' = IF latest = NoId THEN clock + 1 ELSE clock

\* PUT /api/v1/prompts/{prompt_id}/detail
update_prompt_detail(prompt_id, payload) ==
    /\ update_prompt_detail_writes(prompt_id, payload)
    /\ UNCHANGED <<litellm, req, renderVars, templateVars, sessions>>

\* what update_prompt reads and writes in the tables
update_prompt_writes(prompt_id, payload) ==
    /\ prompt_id \notin DOMAIN prompts \/ payload.project_name = None
          \/ ~NeedsNewProject(projects, payload.project_name)
          \/ FreshIds(projects, ProjectIds) # {}
    /\ IF prompt_id \notin DOMAIN prompts
       THEN UNCHANGED storeVars                          \* 404
       ELSE
       LET conflict == payload.slug # None /\
               \E q \in DOMAIN prompts : prompts[q].slug = payload.slug /\ q # prompt_id
           g == IF payload.project_name # None
                THEN _get_or_create_project(projects, payload.project_name)
                ELSE [projects |-> projects, project |-> prompts[prompt_id].project_id,
                      raised |-> FALSE]
           row == [prompts[prompt_id] EXCEPT
                      !.name = IF payload.name # None THEN payload.name ELSE @,
                      !.slug = IF payload.slug # None THEN payload.slug ELSE @,
                      !.project_id = g.project]
           latest == _get_latest_version(versions, prompt_id)
       IN  IF conflict \/ g.raised \/ NotNullViolation(g.project)
           THEN UNCHANGED storeVars                      \* 400 / 500
           ELSE /\ projects' = g.projects
                /\ prompts' = Put(prompts, prompt_id, row)
                /\ versions' =
                     IF latest = NoId THEN versions
                     ELSE Put(versions, latest,
                              [versions[latest] EXCEPT
                                 !.version_num =
                                     IF payload.version # None THEN payload.version ELSE @,
                                 !.compiled_template =
                                     IF payload.compiled_template # NoneT
                                     THEN _normalize_compiled_template(payload.compiled_template)
                                     ELSE @])
                /\ UNCHANGED clock

\* PUT /api/v1/prompts/{prompt_id}: the prompt and its latest version, if any
update_prompt(prompt_id, payload) ==
    /\ update_prompt_writes(prompt_id, payload)
    /\ UNCHANGED <<litellm, req, renderVars, templateVars, sessions>>

\* delete_prompt without the cascade to the versions
delete_prompt_writes_uncascaded(prompt_id) ==
    /\ IF prompt_id \notin DOMAIN prompts
       THEN UNCHANGED storeVars
       ELSE /\ prompts' = Drop(prompts, {prompt_id})
            /\ UNCHANGED <<projects, versions, clock>>

\* what delete_prompt reads and writes in the tables
delete_prompt_writes(prompt_id) ==
    /\ IF prompt_id \notin DOMAIN prompts
       THEN UNCHANGED storeVars                          \* 404
       ELSE /\ prompts' = Drop(prompts, {prompt_id})
            /\ versions' = Drop(versions, {v \in DOMAIN versions : versions[v].prompt_id = prompt_id})
            /\ UNCHANGED <<projects, clock>>

\* DELETE /api/v1/prompts/{prompt_id}: the versions go with the prompt
delete_prompt(prompt_id) ==
    /\ delete_prompt_writes(prompt_id)
    /\ UNCHANGED <<litellm, req, renderVars, templateVars, sessions>>

(***************************************************************************)
(* The write handlers as the thread pool runs them: each request has its   *)
(* own session; its queries read what is committed, and its writes reach   *)
(* the tables at its commit, where the unique index on prompts.slug admits *)
(* or refuses them.  A request that raises is rolled back.                 *)
(***************************************************************************)
Workers == {1, 2}

NoFile == <<>>

\* no project looked up
NoLookup == [raised |-> FALSE, inserts |-> FALSE, project |-> NoId, name |-> None]

\* the project of a new prompt as the handler finds it when it looks it up
\* (prompts.py:142-152, 360-370): the row of that name, or a row the session
\* adds and flushes, which reaches the table at the commit
ProjectLookup(projs, project_name) ==
    LET name == IF Falsy(project_name) THEN DefaultProjectName ELSE project_name
        found == {j \in DOMAIN projs : projs[j].name = name}
        raised == ~Falsy(project_name) /\ Cardinality(found) > 1   \* one_or_none()
    IN  [raised |-> raised,
         inserts |-> found = {},
         project |-> IF found = {} \/ raised THEN NoId
                     ELSE CHOOSE j \in found : \A k \in found : j <= k,
         name |-> name]

\* a session: the handler, its position, its arguments, the project it looked
\* up, the rows import_prompts has added so far, the number of file rows it has
\* read, and the status of the response once the handler has returned
Session(op, pc, prompt_id, payload, status) ==
    [op |-> op, pc |-> pc, prompt_id |-> prompt_id, payload |-> payload,
     project_id |-> NoId, lookup |-> NoLookup, file |-> NoFile, pending |-> <<>>,
     cursor |-> 0, status |-> status]

NoSessions == [w \in Workers |-> Session("none", "idle", NoId, EmptyDict, 0)]

Returned(w, status) == [sessions EXCEPT ![w].pc = "idle", ![w].status = status]

\* the unique index on prompts.slug without its enforcement
UniqueViolation_unenforced(ps, slug, self) == FALSE

\* Column(String(255), unique=True): a row other than self holds the slug
UniqueViolation(ps, slug, self) ==
    \E q \in DOMAIN ps : q # self /\ ps[q].slug = slug

\* create_prompt up to its flush of the prompt, lines 136-161: the slug query,
\* then the lookup of the project
create_prompt_query(w, payload) ==
    /\ sessions[w].pc = "idle"
    /\ clock < MaxClock
    /\ LET lookup == ProjectLookup(projects, payload.project_name)
       IN  sessions' =
             [sessions EXCEPT ![w] =
                IF PromptBySlug(prompts, payload.slug) # NoId
                THEN Session("create", "idle", NoId, payload, 400)
                ELSE IF lookup.raised                      \* MultipleResultsFound
                THEN Session("create", "idle", NoId, payload, 500)
                ELSE [Session("create", "open", NoId, payload, 0) EXCEPT !.lookup = lookup]]
    /\ UNCHANGED <<litellm, storeVars, req, renderVars, templateVars>>

\* create_prompt from line 163 to its commit
create_prompt_commit(w) ==
    /\ sessions[w].pc = "open" /\ sessions[w].op = "create"
    /\ clock < MaxClock
    /\ FreshIds(prompts, PromptIds) # {}
    /\ FreshIds(versions, VersionIds) # {}
    /\ sessions[w].lookup.inserts => FreshIds(projects, ProjectIds) # {}
    /\ LET payload == sessions[w].payload
           lookup == sessions[w].lookup
           j == IF lookup.inserts THEN NewId(projects, ProjectIds) ELSE lookup.project
           p == NewId(prompts, PromptIds)
           v == NewId(versions, VersionIds)
       IN  IF UniqueViolation(prompts, payload.slug, NoId)
           THEN /\ sessions' = Returned(w, 500)          \* IntegrityError
                /\ UNCHANGED storeVars
           ELSE /\ sessions' = Returned(w, 201)
                /\ projects' = IF lookup.inserts
                               THEN Put(projects, j, Project(lookup.name)) ELSE projects
                /\ prompts' = Put(prompts, p, Prompt(payload.name, payload.slug, j))
                /\ versions' = Put(versions, v,
                       PromptVersion(p,
                           IF Falsy(payload.version) THEN DefaultVersionNum ELSE payload.version,
                           _normalize_compiled_template(payload.compiled_template),
                           EmptyDict, clock))
                /\ clock' = clock + 1
    /\ UNCHANGED <<litellm, req, renderVars, templateVars>>

\* a get_db whose close writes the pending changes of the session
get_db_close_flushed(committed, pending) == pending

\* get_db, `finally: db.close()`: a session closed without a commit leaves the
\* table as committed, whatever the handler had assigned
get_db_close(committed, pending) == committed

\* update_prompt (op "update") and update_prompt_detail (op "detail") up to
\* their slug query: lines 426-443 and 506-522.  The name is assigned to the
\* row (lines 430-431, 510-511) before the slug is looked up.
UpdateQuery(w, op, prompt_id, payload) ==
    /\ sessions[w].pc = "idle"
    /\ sessions' =
         [sessions EXCEPT ![w] =
            IF prompt_id \notin DOMAIN prompts
            THEN Session(op, "idle", prompt_id, payload, 404)
            ELSE IF payload.slug # None /\
                    \E q \in DOMAIN prompts : prompts[q].slug = payload.slug /\ q # prompt_id
            THEN Session(op, "idle", prompt_id, payload, 400)
            ELSE Session(op, "open", prompt_id, payload, 0)]
    /\ prompts' =
         IF prompt_id \notin DOMAIN prompts THEN prompts
         ELSE LET named == Put(prompts, prompt_id,
                              [prompts[prompt_id] EXCEPT
                                 !.name = IF payload.name # None THEN payload.name ELSE @])
              IN  IF payload.slug # None /\
                     \E q \in DOMAIN prompts : prompts[q].slug = payload.slug /\ q # prompt_id
                  THEN get_db_close(prompts, named)           \* the 400 is raised
                  ELSE prompts                                \* written at the commit
    /\ UNCHANGED <<litellm, projects, versions, clock, req, renderVars, templateVars>>

update_prompt_query(w, prompt_id, payload) == UpdateQuery(w, "update", prompt_id, payload)

update_prompt_detail_query(w, prompt_id, payload) == UpdateQuery(w, "detail", prompt_id, payload)

\* update_prompt and update_prompt_detail from their slug query to their
\* commit.  The UPDATE of a row that another request deleted matches no row
\* (StaleDataError), and the unique index refuses a slug that another request
\* committed since the query (IntegrityError), as the NOT NULL column refuses
\* a prompt whose project was set to None for an empty project name: each
\* leaves the handler as an unhandled exception, and get_db closes the session
\* without a commit.
UpdateCommit(w, op) ==
    /\ sessions[w].pc = "open" /\ sessions[w].op = op
    /\ \/ Falsy(sessions[w].payload.project_name)
       \/ ~NeedsNewProject(projects, sessions[w].payload.project_name)
       \/ FreshIds(projects, ProjectIds) # {}
    /\ LET prompt_id == sessions[w].prompt_id
           payload == sessions[w].payload
           g == _get_or_create_project(projects, payload.project_name)
       IN  IF \/ prompt_id \notin DOMAIN prompts
              \/ payload.slug # None /\ UniqueViolation(prompts, payload.slug, prompt_id)
              \/ payload.project_name # None /\ (g.raised \/ NotNullViolation(g.project))
           THEN /\ sessions' = Returned(w, 500)
                /\ UNCHANGED storeVars
           ELSE /\ sessions' = Returned(w, 200)
                /\ IF op = "update" THEN update_prompt_writes(prompt_id, payload)
                   ELSE update_prompt_detail_writes(prompt_id, payload)
    /\ UNCHANGED <<litellm, req, renderVars, templateVars>>

update_prompt_commit(w) == UpdateCommit(w, "update")

update_prompt_detail_commit(w) == UpdateCommit(w, "detail")

\* delete_prompt up to its query, lines 560-563
delete_prompt_query(w, prompt_id) ==
    /\ sessions[w].pc = "idle"
    /\ sessions' =
         [sessions EXCEPT ![w] =
            IF prompt_id \notin DOMAIN prompts
            THEN Session("delete", "idle", prompt_id, EmptyDict, 404)
            ELSE Session("delete", "open", prompt_id, EmptyDict, 0)]
    /\ UNCHANGED <<litellm, storeVars, req, renderVars, templateVars>>

\* delete_prompt from line 565 to its commit
delete_prompt_commit(w) ==
    /\ sessions[w].pc = "open" /\ sessions[w].op = "delete"
    /\ IF sessions[w].prompt_id \notin DOMAIN prompts
       THEN /\ sessions' = Returned(w, 500)               \* StaleDataError
            /\ UNCHANGED storeVars
       ELSE /\ sessions' = Returned(w, 204)
            /\ delete_prompt_writes(sessions[w].prompt_id)
    /\ UNCHANGED <<litellm, req, renderVars, templateVars>>

(***************************************************************************)
(* Requests to the generation provider (backend/api/run.py).  The handler  *)
(* runs without suspension up to its await of litellm.acompletion; a       *)
(* streaming response is produced by the generator generate(), which is    *)
(* suspended at the call and at every chunk of the provider stream.        *)
(***************************************************************************)
\* message texts of the source, in ASCII
MissingPrefix == "missing variables: "
MockResponse == "[Mock] provide an API key to call the real LLM"
MockNote == "install litellm and pass api_key to enable real LLM calls"
LLMFailedPrefix == "LLM call failed: "
TranslateFailedPrefix == "translation failed: "
FallbackModel == "gpt-3.5-turbo"
DoneSentinel == "[DONE]"

NoPayload == [none |-> TRUE]
NoVersion == [none |-> TRUE]
NoResponse == [status |-> 0]
NoReply == [none |-> TRUE]

\* the request slot: the handler's position and locals, the response it returned,
\* the events generate() yielded, the calls the provider received, and what the
\* provider did: the chunks it delivered, its reply, the exception that was caught
IdleReq ==
    [op |-> None, pc |-> "idle", slug |-> None, payload |-> NoPayload, version |-> NoVersion,
     rendered |-> FALSE, template |-> <<>>, rendered_prompt |-> <<>>, errors |-> <<>>,
     model |-> None, response |-> NoResponse, events |-> <<>>, chunks |-> <<>>,
     calls |-> <<>>, reply |-> NoReply, fault |-> None, disconnected |-> FALSE]

\* ", ".join(names)
RECURSIVE Join(_)
Join(names) ==
    IF names = <<>> THEN <<>>
    ELSE IF Len(names) = 1 THEN names[1]
    ELSE names[1] \o <<",", " ">> \o Join(Tail(names))

\* EffectiveTemplate that reads the requested language only
EffectiveTemplate_requested_only(compiled_template, lang) ==
    IF IsDict(compiled_template) THEN Get(compiled_template.d, lang, <<>>)
    ELSE IF compiled_template = NoneT THEN <<>> ELSE compiled_template.s

\* run_prompt lines 131-139: the text of the version in the requested language
EffectiveTemplate(compiled_template, lang) ==
    IF IsDict(compiled_template)
    THEN LET d == compiled_template.d
         IN  Or(Get(d, lang, <<>>),
                Or(Get(d, IF lang = "zh" THEN "en" ELSE "zh", <<>>),
                   Or(Get(d, "zh", <<>>), Get(d, "en", <<>>))))
    ELSE IF compiled_template = NoneT THEN <<>> ELSE compiled_template.s

\* run_prompt line 142
SelectModel(payload_model, config_json) ==
    IF ~Falsy(payload_model) THEN payload_model
    ELSE IF DOMAIN config_json # {} THEN Get(config_json, "model_name", None)
    ELSE FallbackModel

HTTPException(status_code, detail) == [status |-> status_code, detail |-> detail]
OK(body) == [status |-> 200, body |-> body]

Call(model, content, api_key, stream) ==
    [model |-> model, content |-> content, api_key |-> api_key, stream |-> stream]

\* the response of run_prompt when rendering reports missing variables
MissingResult(r, variables, template) ==
    OK([result |-> r.result, variables |-> variables, template |-> template,
        errors |-> r.errors, llm_response |-> None,
        error |-> <<MissingPrefix, Join(r.errors)>>])

\* the response of run_prompt without litellm or without an API key
MockResult(r, variables, template) ==
    OK([result |-> r.result, variables |-> variables, template |-> template,
        errors |-> <<>>, llm_response |-> MockResponse, note |-> MockNote])

\* NotFound that answers 200 with the message instead of raising
NotFound_returned(detail) == OK([detail |-> detail])

\* raise HTTPException(status_code=404, ...) of run_prompt, lines 123-127
NotFound(detail) == HTTPException(404, detail)

\* Branch with the credential test moved before the missing-variable test
Branch_mock_first(prompt, version, errors, has_litellm, api_key, stream) ==
    IF prompt = NoId THEN "no_prompt"
    ELSE IF version = NoId THEN "no_version"
    ELSE IF ~has_litellm \/ Falsy(api_key) THEN "mock"
    ELSE IF errors # <<>> THEN "missing"
    ELSE IF stream THEN "stream"
    ELSE "call"

\* Branch with the stream test moved before the credential test
Branch_stream_first(prompt, version, errors, has_litellm, api_key, stream) ==
    IF prompt = NoId THEN "no_prompt"
    ELSE IF version = NoId THEN "no_version"
    ELSE IF errors # <<>> THEN "missing"
    ELSE IF stream THEN "stream"
    ELSE IF ~has_litellm \/ Falsy(api_key) THEN "mock"
    ELSE "call"

\* the branch run_prompt takes: lines 123, 126, 148, 160, 172
Branch(prompt, version, errors, has_litellm, api_key, stream) ==
    IF prompt = NoId THEN "no_prompt"
    ELSE IF version = NoId THEN "no_version"
    ELSE IF errors # <<>> THEN "missing"
    ELSE IF ~has_litellm \/ Falsy(api_key) THEN "mock"
    ELSE IF stream THEN "stream"
    ELSE "call"

\* the fields of the version row that run_prompt reads
Snapshot(row) ==
    [compiled_template |-> row.compiled_template, config_json |-> row.config_json]

\* POST /api/v1/run/{prompt_slug}, up to its return or its first await
run_prompt(prompt_slug, payload) ==
    /\ req.pc = "idle"
    /\ LET prompt == PromptBySlug(prompts, prompt_slug)
           version == _get_latest_version(versions, prompt)
           lang == IF payload.lang = None THEN "zh" ELSE payload.lang
           template == EffectiveTemplate(versions[version].compiled_template, lang)
           variables == IF payload.variables.some THEN payload.variables.v ELSE EmptyDict
           model == SelectModel(payload.model, versions[version].config_json)
           r == _render_template(template, variables)
           started == [IdleReq EXCEPT !.op = "run", !.slug = prompt_slug, !.payload = payload]
           rendered == [started EXCEPT !.version = Snapshot(versions[version]),
                           !.template = template,
                           !.rendered = TRUE, !.rendered_prompt = r.result,
                           !.errors = r.errors, !.model = model]
           branch == Branch(prompt, version,
                            IF prompt = NoId \/ version = NoId THEN <<>> ELSE r.errors,
                            litellm, payload.api_key, payload.stream)
       IN  req' =
             CASE branch = "no_prompt" ->
                    [started EXCEPT !.pc = "done",
                                    !.response = NotFound("prompt slug not found")]
               [] branch = "no_version" ->
                    [started EXCEPT !.pc = "done",
                                    !.response = NotFound("prompt has no version")]
               [] branch = "missing" ->
                    [rendered EXCEPT !.pc = "done",
                                     !.response = MissingResult(r, variables, template)]
               [] branch = "mock" ->
                    [rendered EXCEPT !.pc = "done",
                                     !.response = MockResult(r, variables, template)]
               [] branch = "stream" ->
                    [rendered EXCEPT !.pc = "stream_open",
                                     !.response = [status |-> 200,
                                                   media_type |-> "text/event-stream"]]
               [] branch = "call" ->
                    [rendered EXCEPT !.pc = "await_completion",
                                     !.calls = Append(@, Call(model, r.result,
                                                              payload.api_key, FALSE))]
    /\ UNCHANGED <<litellm, storeVars, renderVars, templateVars, sessions>>

Variables(r) == IF r.payload.variables.some THEN r.payload.variables.v ELSE EmptyDict

\* response.choices[0].message.content if response.choices else ""
Content(response) == IF response.choices THEN response.content ELSE ""

\* SuccessResult that reads the template of the stored version again
SuccessResult_reread(r, response) ==
    LET p == PromptBySlug(prompts, r.slug)
        v == IF p = NoId THEN NoId ELSE _get_latest_version(versions, p)
        template == IF v = NoId THEN r.template
                    ELSE EffectiveTemplate(versions[v].compiled_template,
                                           IF r.payload.lang = None THEN "zh" ELSE r.payload.lang)
    IN  OK([result |-> _render_template(template, Variables(r)).result,
            variables |-> Variables(r), template |-> template,
            errors |-> <<>>, llm_response |-> Content(response), model |-> r.model])

\* the response of run_prompt after the provider's reply: lines 198-207
SuccessResult(r, response) ==
    OK([result |-> r.rendered_prompt, variables |-> Variables(r), template |-> r.template,
        errors |-> <<>>, llm_response |-> Content(response), model |-> r.model])

\* FailureResult that lets the failure out as a 500
FailureResult_raised(r, e) == HTTPException(500, <<LLMFailedPrefix, e>>)

\* FailureResult that returns the template in place of the rendered text
FailureResult_unrendered(r, e) ==
    OK([result |-> r.template, variables |-> Variables(r), template |-> r.template,
        errors |-> <<>>, llm_response |-> None, error |-> <<LLMFailedPrefix, e>>])

\* the response of run_prompt after the provider call raised: lines 208-216
FailureResult(r, e) ==
    OK([result |-> r.rendered_prompt, variables |-> Variables(r), template |-> r.template,
        errors |-> <<>>, llm_response |-> None, error |-> <<LLMFailedPrefix, e>>])

\* litellm.acompletion returns (non-streaming)
completion_returns(response) ==
    /\ req.pc = "await_completion"
    /\ req' = [req EXCEPT !.pc = "done", !.reply = response,
                          !.response = SuccessResult(req, response)]
    /\ UNCHANGED <<litellm, storeVars, renderVars, templateVars, sessions>>

\* completion_raises that calls the provider once more after the first failure
completion_raises_retried(e) ==
    /\ req.pc = "await_completion"
    /\ req' = IF Len(req.calls) < 2
              THEN [req EXCEPT !.fault = e, !.calls = Append(@, req.calls[1])]
              ELSE [req EXCEPT !.pc = "done", !.fault = e, !.response = FailureResult(req, e)]
    /\ UNCHANGED <<litellm, storeVars, renderVars, templateVars, sessions>>

\* litellm.acompletion raises (non-streaming)
completion_raises(e) ==
    /\ req.pc = "await_completion"
    /\ req' = [req EXCEPT !.pc = "done", !.fault = e, !.response = FailureResult(req, e)]
    /\ UNCHANGED <<litellm, storeVars, renderVars, templateVars, sessions>>

ContentEvent(c) == [type |-> "content", data |-> c]
ErrorEvent(e) == [type |-> "error", data |-> e]
DoneEvent == [type |-> "done", data |-> DoneSentinel]

\* generate() starts: it calls litellm.acompletion(stream=True) and awaits it
generate_start ==
    /\ req.pc = "stream_open"
    /\ req' = [req EXCEPT !.pc = "await_stream",
                 !.calls = Append(@, Call(req.model, req.rendered_prompt,
                                          req.payload.api_key, TRUE))]
    /\ UNCHANGED <<litellm, storeVars, renderVars, templateVars, sessions>>

\* the streaming call returns the provider stream
stream_returns ==
    /\ req.pc = "await_stream"
    /\ req' = [req EXCEPT !.pc = "streaming"]
    /\ UNCHANGED <<litellm, storeVars, renderVars, templateVars, sessions>>

\* generate_except that swallows the failure and yields nothing
generate_except_silent(events, e) == events

\* generate_except that yields the sentinel after the error event
generate_except_then_done(events, e) == Append(Append(events, ErrorEvent(e)), DoneEvent)

\* generate_except that yields the error event in place of the earlier events
generate_except_alone(events, e) == <<ErrorEvent(e)>>

\* the except branch of generate(), lines 186-187: the events once it has run
generate_except(events, e) == Append(events, ErrorEvent(e))

\* the end of the async for loop, line 185: the events once the sentinel is yielded
generate_done(events) == Append(events, DoneEvent)

\* generate_chunk that puts the new event before the earlier ones
generate_chunk_reordered(events, chunk) ==
    IF ~Falsy(chunk.content) THEN <<ContentEvent(chunk.content)>> \o events ELSE events

\* the body of the async for loop, lines 183-184: the events after one chunk
generate_chunk(events, chunk) ==
    IF ~Falsy(chunk.content) THEN Append(events, ContentEvent(chunk.content)) ELSE events

\* the streaming call raises
stream_raises(e) ==
    /\ req.pc = "await_stream"
    /\ req' = [req EXCEPT !.pc = "closed", !.fault = e, !.events = generate_except(@, e)]
    /\ UNCHANGED <<litellm, storeVars, renderVars, templateVars, sessions>>

\* the provider stream delivers a chunk: lines 182-184
stream_chunk(chunk) ==
    /\ req.pc = "streaming"
    /\ Len(req.chunks) < MaxChunks
    /\ req' =
         IF ~chunk.choices                  \* chunk.choices[0] raises IndexError
         THEN [req EXCEPT !.pc = "closed", !.chunks = Append(@, chunk),
                          !.fault = "IndexError",
                          !.events = generate_except(@, "IndexError")]
         ELSE [req EXCEPT !.chunks = Append(@, chunk),
                          !.events = generate_chunk(@, chunk)]
    /\ UNCHANGED <<litellm, storeVars, renderVars, templateVars, sessions>>

\* the provider stream is exhausted: line 185
stream_ends ==
    /\ req.pc = "streaming"
    /\ req' = [req EXCEPT !.pc = "closed", !.events = generate_done(@)]
    /\ UNCHANGED <<litellm, storeVars, renderVars, templateVars, sessions>>

\* the provider stream raises while it is iterated
stream_fails(e) ==
    /\ req.pc = "streaming"
    /\ req' = [req EXCEPT !.pc = "closed", !.fault = e, !.events = generate_except(@, e)]
    /\ UNCHANGED <<litellm, storeVars, renderVars, templateVars, sessions>>

\* the exception that cancels a task at its await
CancelledError == "CancelledError"

\* an except clause that catches the cancellation as well
except_Exception_any(e) == TRUE

\* `except Exception as e` of line 186: asyncio.CancelledError derives from
\* BaseException, every failure of the provider from Exception
except_Exception(e) == e # CancelledError

\* the consumer disconnects: the transport cancels the task that iterates
\* generate(), which raises CancelledError at the await where generate() is
\* suspended (lines 176 and 182); before its first step generate() never runs
disconnect ==
    /\ req.pc \in {"stream_open", "await_stream", "streaming"}
    /\ req' = IF req.pc # "stream_open" /\ except_Exception(CancelledError)
              THEN [req EXCEPT !.pc = "closed", !.disconnected = TRUE,
                               !.fault = CancelledError,
                               !.events = generate_except(@, CancelledError)]
              ELSE [req EXCEPT !.pc = "cancelled", !.disconnected = TRUE]
    /\ UNCHANGED <<litellm, storeVars, renderVars, templateVars, sessions>>

\* str.strip() over the model's whitespace
RECURSIVE Strip(_)
Strip(s) ==
    IF s # <<>> /\ Head(s) \in SpaceChars THEN Strip(Tail(s))
    ELSE IF s # <<>> /\ s[Len(s)] \in SpaceChars THEN Strip(SubSeq(s, 1, Len(s) - 1))
    ELSE s

\* response.choices[0].message.content if response.choices else "", as characters
TranslatedText(response) == IF response.choices THEN response.text ELSE <<>>

\* translate_prompt without the test of litellm
translate_prompt_litellm_untested(payload) ==
    /\ req.pc = "idle"
    /\ LET started == [IdleReq EXCEPT !.op = "translate", !.payload = payload]
           model == IF payload.model = None THEN FallbackModel ELSE payload.model
       IN  req' =
             IF Falsy(payload.text)
             THEN [started EXCEPT !.pc = "done", !.response = HTTPException(400, "empty text")]
             ELSE IF Falsy(payload.api_key)
             THEN [started EXCEPT !.pc = "done", !.response = HTTPException(400, "empty API key")]
             ELSE [started EXCEPT !.pc = "await_translate", !.model = model,
                                  !.calls = Append(@, Call(model, <<"zh-to-en", payload.text>>,
                                                           payload.api_key, FALSE))]
    /\ UNCHANGED <<litellm, storeVars, renderVars, templateVars, sessions>>

\* POST /api/v1/run/translate, up to its return or its await
translate_prompt(payload) ==
    /\ req.pc = "idle"
    /\ LET started == [IdleReq EXCEPT !.op = "translate", !.payload = payload]
           from_lang == IF payload.from_lang = None THEN "zh" ELSE payload.from_lang
           model == IF payload.model = None THEN FallbackModel ELSE payload.model
           translate_prompt_text == <<IF from_lang = "zh" THEN "zh-to-en" ELSE "en-to-zh",
                                      payload.text>>
       IN  req' =
             IF Falsy(payload.text)
             THEN [started EXCEPT !.pc = "done", !.response = HTTPException(400, "empty text")]
             ELSE IF Falsy(payload.api_key)
             THEN [started EXCEPT !.pc = "done", !.response = HTTPException(400, "empty API key")]
             ELSE IF ~litellm
             THEN [started EXCEPT !.pc = "done",
                                  !.response = HTTPException(500, "litellm not installed")]
             ELSE [started EXCEPT !.pc = "await_translate", !.model = model,
                                  !.calls = Append(@, Call(model, translate_prompt_text,
                                                           payload.api_key, FALSE))]
    /\ UNCHANGED <<litellm, storeVars, renderVars, templateVars, sessions>>

\* the response of translate_prompt after the provider's reply: lines 89-97
TranslateResult(r, response) ==
    OK([original_text |-> r.payload.text,
        translated_text |-> Strip(TranslatedText(response)),
        from_lang |-> IF r.payload.from_lang = None THEN "zh" ELSE r.payload.from_lang,
        to_lang |-> IF r.payload.to_lang = None THEN "en" ELSE r.payload.to_lang,
        model |-> r.model])

\* the response of translate_prompt after the provider call raised: lines 98-102
TranslateFailure(e) == HTTPException(500, <<TranslateFailedPrefix, e>>)

\* the translation call returns
translate_returns(response) ==
    /\ req.pc = "await_translate"
    /\ req' = [req EXCEPT !.pc = "done", !.reply = response,
                          !.response = TranslateResult(req, response)]
    /\ UNCHANGED <<litellm, storeVars, renderVars, templateVars, sessions>>

\* the translation call raises
translate_raises(e) ==
    /\ req.pc = "await_translate"
    /\ req' = [req EXCEPT !.pc = "done", !.fault = e, !.response = TranslateFailure(e)]
    /\ UNCHANGED <<litellm, storeVars, renderVars, templateVars, sessions>>

\* the response has been delivered (or the stream has ended); the next request
retire ==
    /\ req.pc \in {"done", "closed", "cancelled"}
    /\ req' = IdleReq
    /\ UNCHANGED <<litellm, storeVars, renderVars, templateVars, sessions>>

(***************************************************************************)
(* Inputs.                                                                 *)
(***************************************************************************)
StrV(s) == [kind |-> "str", s |-> s]
IntV(n) == [kind |-> "int", n |-> n]

NameA == <<"a">>
NameB == <<"b">>
TextHiA == <<"H", "i", " ", "{", "{", "a", "}", "}">>               \* Hi {{a}}
TextBAB == <<"{", "{", "b", "}", "}", "{", "{", "a", "}", "}", "{", "{", "b", "}", "}">>
                                                                    \* {{b}}{{a}}{{b}}
TextYo == <<"Y", "o">>                                              \* Yo
PlaceholderB == <<"{", "{", "b", "}", "}">>                         \* {{b}}

VarsA == [k \in {NameA} |-> StrV(<<"v">>)]

Slugs == {"s1"}
CfgModel == [model_name |-> "m1"]
CfgTemperature == [temperature |-> "0.7"]

CreatePayloads ==
    [name : {"n1"}, slug : Slugs, project_name : {None}, version : {None},
     compiled_template : {StrT(TextHiA)}]

DetailPayloads ==
    [name : {None}, slug : {None}, project_name : {None}, version : {None},
     compiled_template : {NoneT, StrT(TextBAB)},
     config_json : {Absent, Some(EmptyDict), Some(CfgModel), Some(CfgTemperature)}]

UpdatePayloads ==
    [name : {None}, slug : {None}, project_name : {None}, version : {None, "2.0"},
     compiled_template : {NoneT, StrT(<<>>), StrT(TextBAB)}]

\* creations with no template, an empty one and a text
TemplateCreatePayloads ==
    [name : {"n1"}, slug : Slugs, project_name : {None}, version : {None},
     compiled_template : {NoneT, StrT(<<>>), StrT(TextHiA)}]

RunPayloads ==
    [lang : {None, "en"}, variables : {Absent, Some(VarsA)},
     api_key : {None, "", "sk"}, model : {None, "m2"}, stream : BOOLEAN]

TranslatePayloads ==
    [text : {"", "hello"}, from_lang : {None, "en"}, to_lang : {None},
     api_key : {None, "", "sk"},
     model : {None}]

\* what the provider may answer
CompletionResponses == {[choices |-> TRUE, content |-> "ok"], [choices |-> FALSE, content |-> ""]}
TranslationResponses ==
    {[choices |-> TRUE, text |-> <<" ", "t", " ">>], [choices |-> FALSE, text |-> <<>>]}
StreamChunks ==
    {[choices |-> TRUE, content |-> "x"], [choices |-> TRUE, content |-> "y"],
     [choices |-> TRUE, content |-> ""], [choices |-> FALSE, content |-> ""]}
\* the chunks the provider may deliver after those it has delivered: the texts
\* alternate, so that the order of two texts shows in the events
NextChunks(chunks) ==
    {c \in StreamChunks : c.content \in {"", IF Len(chunks) % 2 = 0 THEN "x" ELSE "y"}}
ProviderErrors == {"timeout"}

\* renderer harness inputs: templates are concatenations of at most MaxSegs segments
Segments ==
    { <<"{", "{", "a", "}", "}">>, <<"{", "{", " ", "b", " ", "}", "}">>,
      <<"{", "{">>, <<"}", "}">>, <<"{">>, <<"a">>, <<"b">>, <<" ">>, <<"-">> }

HarnessTemplates ==
    UNION { {Flatten(ss) : ss \in [1..n -> Segments]} : n \in 0..MaxSegs }

HarnessVariables ==
    { [k \in D |-> IF k = NameA THEN va ELSE StrV(<<"w">>)] :
        D \in SUBSET {NameA, NameB}, va \in {StrV(<<"v">>), IntV(70), StrV(PlaceholderB)} }

NotRendered == [done |-> FALSE, result |-> <<>>, errors |-> <<>>]

\* template harness: None, plain strings, and dicts with any of the two keys
HarnessTexts == {<<>>, <<"Z">>, <<"E">>}
HarnessDicts == UNION { [D -> HarnessTexts] : D \in SUBSET {"zh", "en"} }
HarnessTemplateValues ==
    {NoneT} \cup {StrT(s) : s \in HarnessTexts} \cup {DictT(d) : d \in HarnessDicts}
HarnessLangs == {None, "zh", "en", "fr"}

NoResult == [op |-> "none", arg |-> NoneT, value |-> NoneT, n |-> 0]

(***************************************************************************)
(* Specifications.                                                         *)
(***************************************************************************)
\* the application after startup on an empty database
Init ==
    /\ litellm \in BOOLEAN
    /\ projects = EmptyDict
    /\ prompts = EmptyDict
    /\ versions = EmptyDict
    /\ clock = 0
    /\ req = IdleReq
    /\ rt = <<>>
    /\ rv = EmptyDict
    /\ rout = NotRendered
    /\ tt = NoneT
    /\ tl = None
    /\ tout = NoResult
    /\ sessions = NoSessions

Next ==
    \/ \E payload \in CreatePayloads : create_prompt(payload)
    \/ \E prompt_id \in PromptIds, payload \in DetailPayloads :
          update_prompt_detail(prompt_id, payload)
    \/ \E prompt_id \in PromptIds : delete_prompt(prompt_id)
    \/ \E prompt_slug \in Slugs, payload \in RunPayloads : run_prompt(prompt_slug, payload)
    \/ \E response \in CompletionResponses : completion_returns(response)
    \/ \E e \in ProviderErrors : completion_raises(e)
    \/ generate_start
    \/ stream_returns
    \/ \E e \in ProviderErrors : stream_raises(e)
    \/ \E chunk \in NextChunks(req.chunks) : stream_chunk(chunk)
    \/ stream_ends
    \/ \E e \in ProviderErrors : stream_fails(e)
    \/ disconnect
    \/ \E payload \in TranslatePayloads : translate_prompt(payload)
    \/ \E response \in TranslationResponses : translate_returns(response)
    \/ \E e \in ProviderErrors : translate_raises(e)
    \/ retire

Spec == Init /\ [][Next]_vars

\* The scheduling of a stream: the transport iterates generate() once the response
\* is returned, and the provider answers every call and every read of its stream
\* (it delivers a chunk, ends, or fails; a stream ends after MaxChunks chunks).
ProviderAnswers ==
    \/ stream_returns
    \/ \E e \in ProviderErrors : stream_raises(e)
    \/ \E chunk \in NextChunks(req.chunks) : stream_chunk(chunk)
    \/ stream_ends
    \/ \E e \in ProviderErrors : stream_fails(e)

FairSpec == Spec /\ WF_vars(generate_start) /\ WF_vars(ProviderAnswers)

\* Databases left by earlier releases, which the handlers are written to accept:
\* a prompt without any version, a version whose template is a plain string, and
\* a prompt with two versions, the later one a dict without its "zh" key
StoreNoVersion ==
    [projects |-> Put(EmptyDict, 1, Project(DefaultProjectName)),
     prompts |-> Put(EmptyDict, 1, Prompt("n1", "s1", 1)),
     versions |-> EmptyDict,
     clock |-> 0]

StoreLegacyString ==
    [projects |-> Put(EmptyDict, 1, Project(DefaultProjectName)),
     prompts |-> Put(EmptyDict, 1, Prompt("n1", "s1", 1)),
     versions |-> Put(EmptyDict, 1,
                      PromptVersion(1, DefaultVersionNum, StrT(TextHiA), CfgTemperature, 0)),
     clock |-> 1]

StoreTwoVersions ==
    [projects |-> Put(EmptyDict, 1, Project(DefaultProjectName)),
     prompts |-> Put(EmptyDict, 1, Prompt("n1", "s1", 1)),
     versions |-> Put(Put(EmptyDict, 1,
                          PromptVersion(1, DefaultVersionNum, StrT(TextHiA), EmptyDict, 0)),
                      2, PromptVersion(1, "2.0", DictT([en |-> TextYo]), CfgModel, 1)),
     clock |-> 1]

PersistedStores == {StoreNoVersion, StoreLegacyString, StoreTwoVersions}

\* the application after startup on a database an earlier release left
InitPersisted ==
    /\ litellm \in BOOLEAN
    /\ \E store \in PersistedStores :
          /\ projects = store.projects
          /\ prompts = store.prompts
          /\ versions = store.versions
          /\ clock = store.clock
    /\ req = IdleReq
    /\ rt = <<>>
    /\ rv = EmptyDict
    /\ rout = NotRendered
    /\ tt = NoneT
    /\ tl = None
    /\ tout = NoResult
    /\ sessions = NoSessions

SpecPersisted == InitPersisted /\ [][Next]_vars

\* the renderer applied to every harness input
render ==
    /\ ~rout.done
    /\ rout' = [done |-> TRUE, result |-> _render_template(rt, rv).result,
                errors |-> _render_template(rt, rv).errors]
    /\ UNCHANGED <<litellm, storeVars, req, rt, rv, templateVars, sessions>>

InitRender ==
    /\ litellm = TRUE
    /\ projects = EmptyDict
    /\ prompts = EmptyDict
    /\ versions = EmptyDict
    /\ clock = 0
    /\ req = IdleReq
    /\ rt \in HarnessTemplates
    /\ rv \in HarnessVariables
    /\ rout = NotRendered
    /\ tt = NoneT
    /\ tl = None
    /\ tout = NoResult
    /\ sessions = NoSessions

NextRender == render

SpecRender == InitRender /\ [][NextRender]_vars

(***************************************************************************)
(* Version resolution: run_prompt on stores that hold the versions of two  *)
(* prompts in every storage order, with pairwise distinct created_at.      *)
(***************************************************************************)
VersionTimes == 0..2

\* who owns each stored version and when it was created
VersionLayouts ==
    UNION { { f \in [S -> [prompt_id : PromptIds, created_at : VersionTimes]] :
                \A v, w \in S : v # w => f[v].created_at # f[w].created_at } :
            S \in SUBSET VersionIds }

\* the store of a layout; the template of version v is the text "v" with its id
LayoutStore(f) ==
    [projects |-> Put(EmptyDict, 1, Project(DefaultProjectName)),
     prompts |-> Put(Put(EmptyDict, 1, Prompt("n1", "s1", 1)), 2, Prompt("n2", "s2", 1)),
     versions |-> [v \in DOMAIN f |->
                     PromptVersion(f[v].prompt_id, DefaultVersionNum,
                                   StrT(<<"v", DigitChar(v)>>), EmptyDict, f[v].created_at)]]

LatestPayloads == {payload \in RunPayloads : payload.api_key = None /\ ~payload.stream}

InitLatest ==
    /\ litellm \in BOOLEAN
    /\ \E f \in VersionLayouts :
          /\ projects = LayoutStore(f).projects
          /\ prompts = LayoutStore(f).prompts
          /\ versions = LayoutStore(f).versions
    /\ clock = MaxClock
    /\ req = IdleReq
    /\ rt = <<>>
    /\ rv = EmptyDict
    /\ rout = NotRendered
    /\ tt = NoneT
    /\ tl = None
    /\ tout = NoResult
    /\ sessions = NoSessions

NextLatest ==
    \/ \E slug \in Slugs, payload \in LatestPayloads : run_prompt(slug, payload)
    \/ retire

SpecLatest == InitLatest /\ [][NextLatest]_vars

(***************************************************************************)
(* The template harness: the functions on template values, applied to      *)
(* every value of HarnessTemplateValues.                                   *)
(***************************************************************************)
\* tt = _normalize_compiled_template(tt), as the write handlers apply it to the
\* value they store
normalize ==
    /\ tout.n < MaxNormalize
    /\ tt' = _normalize_compiled_template(tt)
    /\ tout' = [op |-> "normalize", arg |-> tt, value |-> tt', n |-> tout.n + 1]
    /\ UNCHANGED <<litellm, storeVars, req, renderVars, tl, sessions>>

\* _get_compiled_template_text(tt, lang), lang defaulting to "zh"
extract ==
    /\ tout.op # "extract"
    /\ tout' = [tout EXCEPT !.op = "extract", !.arg = tt,
                  !.value = StrT(_get_compiled_template_text(
                                    tt, IF tl = None THEN "zh" ELSE tl))]
    /\ UNCHANGED <<litellm, storeVars, req, renderVars, tt, tl, sessions>>

\* the template selection of run_prompt, lines 131-139, for the template tt
effective ==
    /\ tout.op # "effective"
    /\ tout' = [tout EXCEPT !.op = "effective", !.arg = tt,
                  !.value = StrT(EffectiveTemplate(tt, IF tl = None THEN "zh" ELSE tl))]
    /\ UNCHANGED <<litellm, storeVars, req, renderVars, tt, tl, sessions>>

InitTemplate ==
    /\ litellm = TRUE
    /\ projects = EmptyDict
    /\ prompts = EmptyDict
    /\ versions = EmptyDict
    /\ clock = 0
    /\ req = IdleReq
    /\ rt = <<>>
    /\ rv = EmptyDict
    /\ rout = NotRendered
    /\ tt \in HarnessTemplateValues
    /\ tl \in HarnessLangs
    /\ tout = NoResult
    /\ sessions = NoSessions

NextTemplate == normalize \/ extract \/ effective

SpecTemplate == InitTemplate /\ [][NextTemplate]_vars

(***************************************************************************)
(* The writers of version templates, on an empty database, next to the     *)
(* normalization of every template value.                                  *)
(***************************************************************************)
InitWrites ==
    /\ litellm = TRUE
    /\ projects = EmptyDict
    /\ prompts = EmptyDict
    /\ versions = EmptyDict
    /\ clock = 0
    /\ req = IdleReq
    /\ rt = <<>>
    /\ rv = EmptyDict
    /\ rout = NotRendered
    /\ tt \in HarnessTemplateValues
    /\ tl = None
    /\ tout = NoResult
    /\ sessions = NoSessions

NextWrites ==
    \/ normalize
    \/ \E payload \in TemplateCreatePayloads : create_prompt(payload)
    \/ \E prompt_id \in PromptIds, payload \in UpdatePayloads : update_prompt(prompt_id, payload)
    \/ \E prompt_id \in PromptIds, payload \in DetailPayloads :
          update_prompt_detail(prompt_id, payload)
    \/ \E prompt_id \in PromptIds : delete_prompt(prompt_id)

SpecWrites == InitWrites /\ [][NextWrites]_vars

\* creations with no label, an empty one and a label of their own
LabelCreatePayloads ==
    [name : {"n1"}, slug : {"s1", "s2"}, project_name : {None}, version : {None, "", "2.0"},
     compiled_template : {NoneT, StrT(TextHiA)}]

\* SpecCreates: prompts created, relabelled and deleted, from an empty database
NextCreates ==
    \/ \E payload \in LabelCreatePayloads : create_prompt(payload)
    \/ \E prompt_id \in PromptIds, payload \in UpdatePayloads : update_prompt(prompt_id, payload)
    \/ \E prompt_id \in PromptIds : delete_prompt(prompt_id)

InitCreates == InitWrites /\ tt = NoneT

SpecCreates == InitCreates /\ [][NextCreates]_vars

(***************************************************************************)
(* Concurrent write requests (SpecWriters): two requests at a time, every  *)
(* handler split at the point where another request can commit between its *)
(* slug query and its own commit.                                          *)
(***************************************************************************)
WriterSlugs == {"s1", "s2"}

WriterCreatePayloads ==
    [name : {"n1"}, slug : WriterSlugs, project_name : {None}, version : {None},
     compiled_template : {NoneT}]

WriterUpdatePayloads ==
    [name : {None}, slug : WriterSlugs \cup {None}, project_name : {None}, version : {None},
     compiled_template : {NoneT}]

WriterDetailPayloads ==
    [name : {None}, slug : WriterSlugs \cup {None}, project_name : {None}, version : {None},
     compiled_template : {NoneT}, config_json : {Absent}]

\* the rows of an uploaded sheet: name and slug, every other column empty
ImportRow(slug) == [name |-> "n1", slug |-> slug]

ImportFiles ==
    {<<ImportRow(a)>> : a \in WriterSlugs \cup {""}}
        \cup {<<ImportRow(a), ImportRow(b)>> : a, b \in WriterSlugs}

\* import_prompts up to its loop, lines 252-286
import_prompts_read(w, file) ==
    /\ sessions[w].pc = "idle"
    /\ clock < MaxClock
    /\ sessions' = [sessions EXCEPT ![w] =
                      [Session("import", "open", NoId, EmptyDict, 0) EXCEPT !.file = file]]
    /\ UNCHANGED <<litellm, storeVars, req, renderVars, templateVars>>

\* one row of the loop, lines 287-398: the slug query sees the committed rows
\* and the rows this session has flushed
import_prompts_row(w) ==
    /\ sessions[w].pc = "open" /\ sessions[w].op = "import"
    /\ sessions[w].cursor < Len(sessions[w].file)
    /\ LET row == sessions[w].file[sessions[w].cursor + 1]
           pending == sessions[w].pending
           existing == \/ PromptBySlug(prompts, row.slug) # NoId
                       \/ \E i \in 1..Len(pending) : pending[i].slug = row.slug
           skipped == Falsy(row.name) \/ Falsy(row.slug) \/ existing
       IN  sessions' =
             [sessions EXCEPT
                ![w].cursor = @ + 1,
                ![w].lookup = IF ~skipped /\ pending = <<>>
                              THEN ProjectLookup(projects, None) ELSE @,
                ![w].pending = IF skipped THEN @ ELSE Append(@, row)]
    /\ UNCHANGED <<litellm, storeVars, req, renderVars, templateVars>>

\* the rows of an import, inserted in order with their versions
RECURSIVE ImportInserted(_, _, _, _, _)
ImportInserted(ps, vs, rows, project, created_at) ==
    IF rows = <<>> THEN [prompts |-> ps, versions |-> vs]
    ELSE LET p == NewId(ps, PromptIds)
             v == NewId(vs, VersionIds)
         IN  ImportInserted(
                 Put(ps, p, Prompt(rows[1].name, rows[1].slug, project)),
                 Put(vs, v, PromptVersion(p, DefaultVersionNum,
                                DictT([zh |-> <<>>, en |-> <<>>]), EmptyDict, created_at)),
                 Tail(rows), project, created_at + 1)

\* the commit of line 400: the unique index refuses the import when another
\* request committed one of its slugs since the row was added, and the
\* handler rolls back and answers 500 (lines 411-416)
import_prompts_commit(w) ==
    /\ sessions[w].pc = "open" /\ sessions[w].op = "import"
    /\ sessions[w].cursor = Len(sessions[w].file)
    /\ LET pending == sessions[w].pending
           lookup == sessions[w].lookup
           j == IF lookup.inserts THEN NewId(projects, ProjectIds) ELSE lookup.project
           refused == \E i \in 1..Len(pending) :
                          UniqueViolation(prompts, pending[i].slug, NoId)
       IN  /\ clock + Len(pending) <= MaxClock
           /\ Cardinality(FreshIds(prompts, PromptIds)) >= Len(pending)
           /\ Cardinality(FreshIds(versions, VersionIds)) >= Len(pending)
           /\ lookup.inserts => FreshIds(projects, ProjectIds) # {}
           /\ IF refused
              THEN /\ sessions' = Returned(w, 500)
                   /\ UNCHANGED storeVars
              ELSE LET t == ImportInserted(prompts, versions, pending, j, clock)
                   IN  /\ sessions' = Returned(w, 200)
                       /\ projects' = IF lookup.inserts
                                      THEN Put(projects, j, Project(lookup.name))
                                      ELSE projects
                       /\ prompts' = t.prompts
                       /\ versions' = t.versions
                       /\ clock' = clock + Len(pending)
    /\ UNCHANGED <<litellm, req, renderVars, templateVars>>

InitWriters ==
    /\ litellm = TRUE
    /\ projects = EmptyDict
    /\ prompts = EmptyDict
    /\ versions = EmptyDict
    /\ clock = 0
    /\ req = IdleReq
    /\ rt = <<>>
    /\ rv = EmptyDict
    /\ rout = NotRendered
    /\ tt = NoneT
    /\ tl = None
    /\ tout = NoResult
    /\ sessions = NoSessions

NextWriters ==
    \E w \in Workers :
        \/ \E payload \in WriterCreatePayloads : create_prompt_query(w, payload)
        \/ create_prompt_commit(w)
        \/ \E prompt_id \in PromptIds, payload \in WriterUpdatePayloads :
              update_prompt_query(w, prompt_id, payload)
        \/ update_prompt_commit(w)
        \/ \E prompt_id \in PromptIds, payload \in WriterDetailPayloads :
              update_prompt_detail_query(w, prompt_id, payload)
        \/ update_prompt_detail_commit(w)
        \/ \E file \in ImportFiles : import_prompts_read(w, file)
        \/ import_prompts_row(w)
        \/ import_prompts_commit(w)
        \/ \E prompt_id \in PromptIds : delete_prompt_query(w, prompt_id)
        \/ delete_prompt_commit(w)

SpecWriters == InitWriters /\ [][NextWriters]_vars

SequentialCreatePayloads ==
    [name : {"n1"}, slug : WriterSlugs, project_name : {None, "", "pj"}, version : {None},
     compiled_template : {NoneT}]

SequentialUpdatePayloads ==
    [name : {None, "n2"}, slug : WriterSlugs \cup {None}, project_name : {None, "", "pj"},
     version : {None}, compiled_template : {NoneT}]

SequentialDetailPayloads ==
    [name : {None, "n2"}, slug : WriterSlugs \cup {None}, project_name : {None, "", "pj"},
     version : {None}, compiled_template : {NoneT}, config_json : {Absent}]

(***************************************************************************)
(* Write handlers of backend/api/projects.py, as concurrent requests.      *)
(***************************************************************************)
\* create_project up to its name query, lines 58-62
create_project_query(w, payload) ==
    /\ sessions[w].pc = "idle"
    /\ sessions' =
         [sessions EXCEPT ![w] =
            IF \E j \in DOMAIN projects : projects[j].name = payload.name
            THEN Session("create_project", "idle", NoId, payload, 400)
            ELSE Session("create_project", "open", NoId, payload, 0)]
    /\ UNCHANGED <<litellm, storeVars, req, renderVars, templateVars>>

\* create_project from line 64 to its commit: projects.name carries no unique
\* index (models.py:32), so the insert is never refused
create_project_commit(w) ==
    /\ sessions[w].pc = "open" /\ sessions[w].op = "create_project"
    /\ FreshIds(projects, ProjectIds) # {}
    /\ sessions' = Returned(w, 201)
    /\ projects' = Put(projects, NewId(projects, ProjectIds),
                       Project(sessions[w].payload.name))
    /\ UNCHANGED <<litellm, prompts, versions, clock, req, renderVars, templateVars>>

\* update_project up to its name query, lines 85-101
update_project_query(w, project_id, payload) ==
    /\ sessions[w].pc = "idle"
    /\ sessions' =
         [sessions EXCEPT ![w] =
            IF project_id \notin DOMAIN projects
            THEN [Session("update_project", "idle", NoId, payload, 404)
                     EXCEPT !.project_id = project_id]
            ELSE IF payload.name # None /\
                    \E j \in DOMAIN projects : projects[j].name = payload.name /\ j # project_id
            THEN [Session("update_project", "idle", NoId, payload, 400)
                     EXCEPT !.project_id = project_id]
            ELSE [Session("update_project", "open", NoId, payload, 0)
                     EXCEPT !.project_id = project_id]]
    /\ UNCHANGED <<litellm, storeVars, req, renderVars, templateVars>>

\* update_project from line 102 to its commit
update_project_commit(w) ==
    /\ sessions[w].pc = "open" /\ sessions[w].op = "update_project"
    /\ LET project_id == sessions[w].project_id
           payload == sessions[w].payload
       IN  IF project_id \notin DOMAIN projects
           THEN /\ sessions' = Returned(w, 500)            \* StaleDataError
                /\ UNCHANGED projects
           ELSE /\ sessions' = Returned(w, 200)
                /\ projects' = Put(projects, project_id,
                        [projects[project_id] EXCEPT
                            !.name = IF payload.name # None THEN payload.name ELSE @])
    /\ UNCHANGED <<litellm, prompts, versions, clock, req, renderVars, templateVars>>

\* DELETE /api/v1/projects/{project_id}, lines 124-146, as one step
delete_project(w, project_id) ==
    /\ sessions[w].pc = "idle"
    /\ LET prompt_count == Cardinality({p \in DOMAIN prompts :
                                           prompts[p].project_id = project_id})
           answered(status) ==
               [sessions EXCEPT ![w] =
                  [Session("delete_project", "idle", NoId, EmptyDict, status)
                      EXCEPT !.project_id = project_id]]
       IN  IF project_id \notin DOMAIN projects
           THEN /\ sessions' = answered(404)
                /\ UNCHANGED projects
           ELSE IF prompt_count > 0
           THEN /\ sessions' = answered(400)               \* lines 138-142
                /\ UNCHANGED projects
           ELSE /\ sessions' = answered(204)
                /\ projects' = Drop(projects, {project_id})
    /\ UNCHANGED <<litellm, prompts, versions, clock, req, renderVars, templateVars>>

\* DELETE /api/v1/projects/empty/batch, lines 149-177, as one step
delete_empty_projects(w) ==
    /\ sessions[w].pc = "idle"
    /\ LET empty_projects ==
               {j \in DOMAIN projects : \A p \in DOMAIN prompts : prompts[p].project_id # j}
       IN  /\ sessions' = [sessions EXCEPT ![w] =
                             Session("delete_empty_projects", "idle", NoId, EmptyDict, 200)]
           /\ projects' = Drop(projects, empty_projects)
    /\ UNCHANGED <<litellm, prompts, versions, clock, req, renderVars, templateVars>>

ProjectNames == {"pj", DefaultProjectName}

ProjectCreatePayloads == [name : ProjectNames]

ProjectUpdatePayloads == [name : ProjectNames \cup {None}]

ProjectPromptPayloads ==
    [name : {"n1"}, slug : WriterSlugs, project_name : {None, "pj"}, version : {None},
     compiled_template : {NoneT}]

\* SpecProjects: two concurrent requests that create and rename projects and
\* create prompts in them
NextProjects ==
    \E w \in Workers :
        \/ \E payload \in ProjectCreatePayloads : create_project_query(w, payload)
        \/ create_project_commit(w)
        \/ \E project_id \in ProjectIds, payload \in ProjectUpdatePayloads :
              update_project_query(w, project_id, payload)
        \/ update_project_commit(w)
        \/ \E payload \in ProjectPromptPayloads : create_prompt_query(w, payload)
        \/ create_prompt_commit(w)

SpecProjects == InitWriters /\ [][NextProjects]_vars

\* C28 (as claimed): no two stored projects have the same name, whatever the
\* interleaving of the requests that create or rename projects.
C28_UniqueProjectNames ==
    \A i, j \in DOMAIN projects : projects[i].name = projects[j].name => i = j

\* C29 (as claimed): delete_project on an existing project deletes it together
\* with its prompts, also when the project still holds prompts.
C29_DeleteProjectCascades ==
    [][\A project_id \in DOMAIN projects :
          delete_project(1, project_id) =>
              /\ project_id \notin DOMAIN projects'
              /\ \A p \in DOMAIN prompts' : prompts'[p].project_id # project_id]_vars

\* C30: every stored prompt refers to a stored project; in particular an
\* update that carries an empty project name stores no prompt without project
\* and removes no prompt: it fails and leaves the prompt as it was.
ProjectsExist == \A p \in DOMAIN prompts : prompts[p].project_id \in DOMAIN projects

C30_PromptsHaveProject ==
    /\ []ProjectsExist
    /\ [][(update_prompt_commit(1) \/ update_prompt_detail_commit(1))
            => /\ DOMAIN prompts' = DOMAIN prompts
               /\ sessions[1].payload.project_name = "" =>
                     sessions'[1].status = 500 /\ UNCHANGED storeVars]_vars

\* C30 witness: an update with an empty project name has failed, and the
\* prompt is still there, in the project it had
C30_Witness ==
    /\ sessions[1].op \in {"update", "detail"} /\ sessions[1].status = 500
    /\ sessions[1].payload.project_name = ""
    /\ sessions[1].prompt_id \in DOMAIN prompts
    /\ prompts[sessions[1].prompt_id].project_id \in DOMAIN projects

\* SpecSequential: the same handlers, one request at a time
NextSequential ==
    \/ \E payload \in ProjectCreatePayloads : create_project_query(1, payload)
    \/ create_project_commit(1)
    \/ \E project_id \in ProjectIds : delete_project(1, project_id)
    \/ delete_empty_projects(1)
    \/ \E payload \in SequentialCreatePayloads : create_prompt_query(1, payload)
    \/ create_prompt_commit(1)
    \/ \E prompt_id \in PromptIds, payload \in SequentialUpdatePayloads :
          update_prompt_query(1, prompt_id, payload)
    \/ update_prompt_commit(1)
    \/ \E prompt_id \in PromptIds, payload \in SequentialDetailPayloads :
          update_prompt_detail_query(1, prompt_id, payload)
    \/ update_prompt_detail_commit(1)
    \/ \E file \in ImportFiles : import_prompts_read(1, file)
    \/ import_prompts_row(1)
    \/ import_prompts_commit(1)
    \/ \E prompt_id \in PromptIds : delete_prompt_query(1, prompt_id)
    \/ delete_prompt_commit(1)

\* an empty database, or one with a prompt that an earlier release left
\* without any version
InitSequential ==
    /\ litellm = TRUE
    /\ \E store \in {[projects |-> EmptyDict, prompts |-> EmptyDict,
                        versions |-> EmptyDict, clock |-> 0], StoreNoVersion} :
          /\ projects = store.projects
          /\ prompts = store.prompts
          /\ versions = store.versions
          /\ clock = store.clock
    /\ req = IdleReq
    /\ rt = <<>>
    /\ rv = EmptyDict
    /\ rout = NotRendered
    /\ tt = NoneT
    /\ tl = None
    /\ tout = NoResult
    /\ sessions = NoSessions

SpecSequential == InitSequential /\ [][NextSequential]_vars

\* C23: every stored version belongs to a stored prompt, and a delete_prompt
\* that succeeds removes the prompt and exactly the versions of that prompt.
VersionsOwned == \A v \in DOMAIN versions : versions[v].prompt_id \in DOMAIN prompts

Cascaded(prompt_id) ==
    /\ DOMAIN prompts' = DOMAIN prompts \ {prompt_id}
    /\ DOMAIN versions' = {v \in DOMAIN versions : versions[v].prompt_id # prompt_id}
    /\ \A v \in DOMAIN versions' : versions'[v] = versions[v]
    /\ \A p \in DOMAIN prompts' : prompts'[p] = prompts[p]

C23_VersionsOwned ==
    /\ []VersionsOwned
    /\ [][delete_prompt_commit(1) /\ sessions'[1].status = 204
            => Cascaded(sessions[1].prompt_id)]_vars

\* C23 witness: a prompt was deleted next to another one, whose version stays
C23_Witness ==
    /\ sessions[1].op = "delete" /\ sessions[1].status = 204
    /\ sessions[1].prompt_id \notin DOMAIN prompts
    /\ prompts # EmptyDict /\ versions # EmptyDict

\* C26: every prompt has exactly one version (but for a prompt that the
\* database held without any version from the start); a prompt that stays
\* keeps its version rows, and gains one only when it has none and
\* update_prompt_detail succeeds on it; a version leaves only with its prompt.
VersionRows(vs, prompt_id) == {v \in DOMAIN vs : vs[v].prompt_id = prompt_id}

C26_OneVersion ==
    /\ [](\A p \in DOMAIN prompts :
            \/ Cardinality(VersionRows(versions, p)) = 1
            \/ VersionRows(versions, p) = {} /\ p \in DOMAIN StoreNoVersion.prompts)
    /\ [][\A p \in DOMAIN prompts \cap DOMAIN prompts' :
            /\ VersionRows(versions, p) \subseteq VersionRows(versions', p)
            /\ VersionRows(versions', p) # VersionRows(versions, p) =>
                  /\ VersionRows(versions, p) = {}
                  /\ Cardinality(VersionRows(versions', p)) = 1
                  /\ update_prompt_detail_commit(1) /\ sessions[1].prompt_id = p]_vars

\* C26 witness: update_prompt_detail gave its one version to a prompt that had
\* none, next to a prompt that was created with its own
C26_Witness ==
    /\ sessions[1].op = "detail" /\ sessions[1].status = 200
    /\ Cardinality(DOMAIN prompts) = 2
    /\ \E v \in DOMAIN versions :
          versions[v].prompt_id = sessions[1].prompt_id /\ versions[v].created_at > 0

\* C27: an update_prompt or update_prompt_detail that is rejected because
\* another prompt holds the requested slug leaves every table as it was; the
\* name it assigned before the slug lookup is not stored.
C27_RejectedUpdateWritesNothing ==
    [][(/\ sessions[1].pc = "idle" /\ sessions'[1].pc = "idle"
        /\ sessions'[1].op \in {"update", "detail"}
        /\ sessions'[1].status = 400) => UNCHANGED storeVars]_vars

\* C27 witness: a rejected update that carried a new name, and the old name
C27_Witness ==
    /\ sessions[1].op \in {"update", "detail"} /\ sessions[1].status = 400
    /\ sessions[1].payload.name = "n2"
    /\ prompts[sessions[1].prompt_id].name = "n1"

\* C15: no two stored prompts have the same slug, whatever the interleaving of
\* create_prompt, update_prompt, update_prompt_detail, import_prompts and
\* delete_prompt; a creation or an update whose slug another prompt holds at
\* its commit is rejected (400 or 500) and writes nothing.
UniqueSlugs ==
    \A p, q \in DOMAIN prompts : prompts[p].slug = prompts[q].slug => p = q

Finishes(w) == sessions[w].pc = "open" /\ sessions'[w].pc = "idle"

HeldByAnother(w) ==
    /\ sessions[w].op \in {"create", "update", "detail"}
    /\ sessions[w].payload.slug # None
    /\ \E q \in DOMAIN prompts :
          q # sessions[w].prompt_id /\ prompts[q].slug = sessions[w].payload.slug

C15_UniqueSlugs ==
    /\ []UniqueSlugs
    /\ [][\A w \in Workers :
            Finishes(w) /\ HeldByAnother(w)
                => sessions'[w].status \in {400, 500} /\ UNCHANGED storeVars]_vars

\* two requests passed the slug query for one slug, one committed, and the
\* other was refused at its commit
C15_Witness ==
    \E w, x \in Workers :
        /\ w # x
        /\ sessions[w].op = "create" /\ sessions[w].pc = "idle" /\ sessions[w].status = 500
        /\ sessions[x].op \in {"create", "update", "detail"}
        /\ sessions[x].pc = "idle" /\ sessions[x].status \in {200, 201}
        /\ sessions[x].payload.slug = sessions[w].payload.slug
        /\ PromptBySlug(prompts, sessions[w].payload.slug) # NoId

(***************************************************************************)
(* Properties of the renderer (SpecRender).                                *)
(***************************************************************************)
\* The placeholders of a template, stated without scanning: <<i, j, a, b>> is a
\* placeholder when t[i..j] is "{{", spaces, the name t[a..b], spaces, "}}".
\* A placeholder holds no brace between its delimiters, so no two overlap.
Opens(t) == {n \in 1..(Len(t) - 1) : t[n] = "{" /\ t[n + 1] = "{"}
Closes(t) == {m \in 2..Len(t) : t[m - 1] = "}" /\ t[m] = "}"}

IsPlaceholder(t, i, j, a, b) ==
    /\ a <= b
    /\ \A k \in (i + 2)..(a - 1) : t[k] \in SpaceChars
    /\ \A k \in a..b : t[k] \in NameChars
    /\ \A k \in (b + 1)..(j - 2) : t[k] \in SpaceChars

Placeholders(t) ==
    { o \in UNION { { <<i, j, a, b>> : a \in (i + 2)..(j - 2), b \in (i + 2)..(j - 2) } :
                     i \in Opens(t), j \in Closes(t) } :
        IsPlaceholder(t, o[1], o[2], o[3], o[4]) }

PlaceholderName(t, o) == SubSeq(t, o[3], o[4])

\* what the contract puts in place of a placeholder named name
Replacement(name, variables) ==
    IF name \in DOMAIN variables THEN Str(variables[name])
    ELSE <<"<", "M", "I", "S", "S", "I", "N", "G", ":">> \o name \o <<">">>

\* what the contract leaves at position p of the template
Piece(t, P, p, variables) ==
    IF \E o \in P : o[1] = p
    THEN Replacement(PlaceholderName(t, CHOOSE o \in P : o[1] = p), variables)
    ELSE IF \E o \in P : o[1] < p /\ p <= o[2] THEN <<>>
    ELSE <<t[p]>>

Rendering(t, variables) ==
    LET P == Placeholders(t)
    IN  Flatten([p \in 1..Len(t) |-> Piece(t, P, p, variables)])

Range(seq) == {seq[k] : k \in 1..Len(seq)}

\* the names of the placeholders that are not keys of the variables, one for each
\* occurrence, in the order of the occurrences
RECURSIVE NamesFrom(_, _, _, _)
NamesFrom(t, P, p, variables) ==
    IF p > Len(t) THEN <<>>
    ELSE IF \E o \in P : o[1] = p /\ PlaceholderName(t, o) \notin DOMAIN variables
         THEN <<PlaceholderName(t, CHOOSE o \in P : o[1] = p)>>
                  \o NamesFrom(t, P, p + 1, variables)
         ELSE NamesFrom(t, P, p + 1, variables)

UnresolvedNames(t, variables) == NamesFrom(t, Placeholders(t), 1, variables)

\* a sequence without the repetitions of its elements
RECURSIVE FirstAppearances(_)
FirstAppearances(seq) ==
    IF seq = <<>> THEN <<>>
    ELSE LET front == FirstAppearances(SubSeq(seq, 1, Len(seq) - 1))
             last == seq[Len(seq)]
         IN  IF last \in Range(front) THEN front ELSE Append(front, last)

\* C1: the rendered text is the template with every placeholder whose name is a
\* key of the variables replaced by str of its value and every other placeholder
\* replaced by <MISSING:name>, the text outside placeholders kept as it is; and
\* the missing list holds exactly the names of the placeholders that are not keys.
C1_RenderContract ==
    rout.done =>
        /\ rout.result = Rendering(rt, rv)
        /\ Range(rout.errors) =
              {PlaceholderName(rt, o) : o \in {q \in Placeholders(rt) :
                                                 PlaceholderName(rt, q) \notin DOMAIN rv}}

\* C1 witness: a rendered template with a resolved placeholder, an unresolved
\* one, and text outside both
C1_Witness ==
    /\ rout.done
    /\ \E o \in Placeholders(rt) : PlaceholderName(rt, o) \in DOMAIN rv
    /\ \E o \in Placeholders(rt) : PlaceholderName(rt, o) \notin DOMAIN rv
    /\ \E p \in 1..Len(rt) : \A o \in Placeholders(rt) : p < o[1] \/ p > o[2]

\* C10 (as claimed): the missing list names each unresolved variable at most once,
\* in the order of first appearance in the template.
C10_MissingDistinct ==
    rout.done => rout.errors = FirstAppearances(UnresolvedNames(rt, rv))

\* C10 (amended): the missing list names the unresolved variable of every
\* placeholder occurrence, in the order of the occurrences, so a name that is
\* unresolved at several occurrences is listed once for each of them.
C10_MissingPerOccurrence ==
    rout.done => rout.errors = UnresolvedNames(rt, rv)

\* C10 witness: a rendered template in which one unresolved name occurs twice,
\* with another unresolved name between the two occurrences
C10_Witness ==
    /\ rout.done
    /\ \E i, j, k \in 1..Len(rout.errors) :
          i < j /\ j < k /\ rout.errors[i] = rout.errors[k]
                /\ rout.errors[j] # rout.errors[i]

\* where the text put in place of the placeholder o starts in the rendering
Offset(t, P, o, variables) ==
    Len(Flatten([p \in 1..(o[1] - 1) |-> Piece(t, P, p, variables)]))

\* C11: the value of a variable stands verbatim in the rendered text where its
\* placeholder stood, also when the value has the form of a placeholder, and
\* the missing list has an entry for each unresolved placeholder of the
\* template and none on account of a value.
C11_SinglePass ==
    rout.done =>
        LET P == Placeholders(rt)
        IN  /\ \A o \in P :
                  PlaceholderName(rt, o) \in DOMAIN rv =>
                      LET value == Str(rv[PlaceholderName(rt, o)])
                          at == Offset(rt, P, o, rv)
                      IN  SubSeq(rout.result, at + 1, at + Len(value)) = value
            /\ Len(rout.errors) =
                  Cardinality({o \in P : PlaceholderName(rt, o) \notin DOMAIN rv})
            /\ Range(rout.errors) \subseteq {PlaceholderName(rt, o) : o \in P}

\* C11 witness: a is given the value {{b}}, the template uses a and not b, and
\* the rendering holds {{b}} although b has a value of its own
C11_Witness ==
    /\ rout.done
    /\ NameA \in DOMAIN rv /\ rv[NameA] = StrV(PlaceholderB)
    /\ NameB \in DOMAIN rv
    /\ \E o \in Placeholders(rt) : PlaceholderName(rt, o) = NameA
    /\ \A o \in Placeholders(rt) : PlaceholderName(rt, o) = NameA
    /\ \E n \in 1..(Len(rout.result) - 4) : SubSeq(rout.result, n, n + 4) = PlaceholderB
    /\ rout.errors = <<>>

(***************************************************************************)
(* Properties of the functions on template values (SpecTemplate).          *)
(***************************************************************************)
RequestedLang == IF tl = None THEN "zh" ELSE tl
OtherLang == IF RequestedLang = "zh" THEN "en" ELSE "zh"

\* the text a dict stores for a language, empty when the key is missing
Stored(d, lang) == IF lang \in DOMAIN d THEN d[lang] ELSE <<>>

\* requested language if non-empty, else the other language if non-empty, else ""
RequestedThenOther(d) ==
    IF Stored(d, RequestedLang) # <<>> THEN Stored(d, RequestedLang)
    ELSE IF Stored(d, OtherLang) # <<>> THEN Stored(d, OtherLang)
    ELSE <<>>

\* C12: for a dict template, the text run_prompt selects is the text of the
\* requested language ("zh" when none is requested) if it is not empty, else
\* the text of the other language if it is not empty, else the empty text; it is
\* empty only when both texts are.
C12_EffectiveTemplate ==
    (tout.op = "effective" /\ IsDict(tout.arg)) =>
        /\ RequestedLang \in {"zh", "en"} => tout.value.s = RequestedThenOther(tout.arg.d)
        /\ tout.value.s = <<>> <=>
              (Stored(tout.arg.d, "zh") = <<>> /\ Stored(tout.arg.d, "en") = <<>>)

\* C12 witness: English requested from a dict whose "en" text is empty and
\* whose "zh" text is not
C12_Witness ==
    /\ tout.op = "effective" /\ IsDict(tout.arg) /\ tl = "en"
    /\ DOMAIN tout.arg.d = {"zh", "en"}
    /\ tout.arg.d["en"] = <<>> /\ tout.arg.d["zh"] # <<>>
    /\ tout.value.s = tout.arg.d["zh"]

\* C13 (as claimed): _get_compiled_template_text returns the text of the
\* requested language if it is not empty, else the text of the other language
\* if it is not empty, else the empty text.
C13_ExtractFallsBack ==
    (tout.op = "extract" /\ RequestedLang \in {"zh", "en"}) =>
        tout.value.s = RequestedThenOther(_normalize_compiled_template(tout.arg).d)

\* C13 (amended): _get_compiled_template_text returns the text stored for the
\* requested language and never the text of the other language: the empty
\* text for None and for a dict without that key, and a plain string for "zh"
\* only.
C13_ExtractRequestedOnly ==
    tout.op = "extract" =>
        tout.value.s =
            IF tout.arg = NoneT THEN <<>>
            ELSE IF IsDict(tout.arg) THEN Stored(tout.arg.d, RequestedLang)
            ELSE IF RequestedLang = "zh" THEN tout.arg.s ELSE <<>>

\* C13 witness: "zh" extracted from a dict whose "zh" text is empty and whose
\* "en" text is not: the result is empty
C13_Witness ==
    /\ tout.op = "extract" /\ IsDict(tout.arg) /\ RequestedLang = "zh"
    /\ Stored(tout.arg.d, "zh") = <<>> /\ Stored(tout.arg.d, "en") # <<>>
    /\ tout.value.s = <<>>

\* C16: normalizing a value that is already the result of a normalization
\* returns it unchanged, whatever the first input was (None, a string, a dict).
C16_NormalizeIdempotent ==
    (tout.op = "normalize" /\ tout.n >= 2) => tout.value = tout.arg

\* C16 witness: the second normalization of a dict, here one with an empty "zh"
\* text and an "en" text
C16_Witness ==
    /\ tout.op = "normalize" /\ tout.n = 2
    /\ tt = DictT([zh |-> <<>>, en |-> <<"E">>])

TwoKeyRecord(template) == IsDict(template) /\ DOMAIN template.d = {"zh", "en"}

Created(payload) ==
    LET new_prompts == DOMAIN prompts' \ DOMAIN prompts
        new_versions == DOMAIN versions' \ DOMAIN versions
    IN  /\ Cardinality(new_prompts) = 1
        /\ Cardinality(new_versions) = 1
        /\ \A p \in DOMAIN prompts : prompts'[p] = prompts[p]
        /\ \A v \in DOMAIN versions : versions'[v] = versions[v]
        /\ \A p \in new_prompts, v \in new_versions :
              /\ prompts'[p].name = payload.name
              /\ prompts'[p].slug = payload.slug
              /\ versions'[v].prompt_id = p
              /\ versions'[v].version_num =
                    IF payload.version \in {None, ""} THEN "1.0.0" ELSE payload.version
              /\ versions'[v].is_published = FALSE
              /\ versions'[v].variables = <<>>
              /\ versions'[v].config_json = EmptyDict

Lang(r) == IF r.payload.lang = None THEN "zh" ELSE r.payload.lang

\* the rendering of the version the request read, in the requested language, with
\* the variables of the request
RenderOf(r) ==
    _render_template(EffectiveTemplate(r.version.compiled_template, Lang(r)), Variables(r))

Last(seq) == seq[Len(seq)]

\* C2: when rendering reports a missing variable, run_prompt has returned, has
\* called no provider and opened no stream, and its result carries the partially
\* rendered text, the missing names in errors, no generated text and the summary.
C2_MissingStopsPipeline ==
    (req.op = "run" /\ req.rendered /\ RenderOf(req).errors # <<>>) =>
        /\ req.pc = "done"
        /\ req.calls = <<>>
        /\ req.events = <<>>
        /\ req.response.status = 200
        /\ "body" \in DOMAIN req.response
        /\ req.response.body.result = RenderOf(req).result
        /\ req.response.body.errors = RenderOf(req).errors
        /\ req.response.body.llm_response = None
        /\ "error" \in DOMAIN req.response.body
        /\ req.response.body.error = <<MissingPrefix, Join(RenderOf(req).errors)>>

\* C2 witness: a missing variable in a request that has a credential, a model and
\* asks for a stream, with the provider integration installed
C2_Witness ==
    /\ req.op = "run" /\ req.pc = "done" /\ req.errors # <<>>
    /\ litellm /\ req.payload.api_key = "sk" /\ req.payload.stream
    /\ req.payload.model = "m2"

\* C3 (as claimed): the model of every provider call of run_prompt is the model of
\* the request if given, else the model_name of the version's config if it has
\* one, else the fallback; it is never None or empty.
C3_ModelFallbackChain ==
    req.op = "run" =>
        \A k \in 1..Len(req.calls) :
            /\ req.calls[k].model =
                  IF ~Falsy(req.payload.model) THEN req.payload.model
                  ELSE IF "model_name" \in DOMAIN req.version.config_json
                       THEN req.version.config_json.model_name
                  ELSE FallbackModel
            /\ ~Falsy(req.calls[k].model)

StreamOpen == req.pc \in {"stream_open", "await_stream", "streaming"}

TerminalLast(events) == events # <<>> /\ Last(events).type \in {"done", "error"}

\* C4: a stream that generate() has ended was ended by a terminal event (the
\* sentinel or an error event), and every open stream is eventually ended that
\* way, unless the consumer disconnects first.
C4_StreamReachesTerminal ==
    /\ [](req.pc = "closed" => TerminalLast(req.events))
    /\ (StreamOpen ~> ((req.pc = "closed" /\ TerminalLast(req.events))
                          \/ req.pc = "cancelled"))

\* C21: once the consumer of a stream has disconnected, generate() yields no
\* further content, error or sentinel event, the provider is not called again
\* and no further chunk is read from its stream.
Frozen ==
    /\ req'.events = req.events
    /\ req'.chunks = req.chunks
    /\ req'.calls = req.calls

C24_SingleAttempt ==
    /\ [](Len(req.calls) <= 1)
    /\ [][req.fault # None => req'.calls = req.calls \/ req' = IdleReq]_vars

\* C24 witness: a request whose only call failed has been answered
C24_Witness ==
    /\ req.op = "run" /\ req.pc = "done"
    /\ req.fault # None /\ Len(req.calls) = 1

\* C25: an error event or the sentinel is the last event of its stream, so a
\* stream holds at most one of them and no content event after it; and the
\* events already yielded stay as they are: the content events that came
\* before a failure precede its error event.
Terminal(event) == event.type \in {"error", "done"}

C25_TerminalFinal ==
    /\ [](\A k \in 1..Len(req.events) : Terminal(req.events[k]) => k = Len(req.events))
    /\ [][\/ req' = IdleReq
          \/ /\ Len(req'.events) >= Len(req.events)
             /\ SubSeq(req'.events, 1, Len(req.events)) = req.events]_vars

\* C25 witness: a stream failed after two content events
C25_Witness ==
    /\ req.pc = "closed" /\ req.fault # None /\ Len(req.events) = 3
    /\ req.events[1].type = "content" /\ req.events[2].type = "content"
    /\ req.events[3].type = "error"

\* C4 witness: a stream ended by a failure after it had delivered content
C4_Witness ==
    /\ req.pc = "closed" /\ req.fault # None
    /\ Len(req.events) >= 2 /\ req.events[1].type = "content"

\* C5 (as claimed): every ended stream is a sequence of content and error events
\* closed by the [DONE] sentinel, also when the provider failed.
C5_AlwaysDone ==
    req.pc = "closed" =>
        /\ req.events # <<>>
        /\ Last(req.events) = DoneEvent
        /\ \A k \in 1..(Len(req.events) - 1) : req.events[k].type \in {"content", "error"}

\* C5 (amended): every event is a content event, an error event or the sentinel;
\* an ended stream is content events closed by the sentinel when the provider
\* stream completed, and closed by one error event, without sentinel, when the
\* call or the stream failed.
C5_TerminalByOutcome ==
    /\ \A k \in 1..Len(req.events) : req.events[k].type \in {"content", "error", "done"}
    /\ req.pc = "closed" =>
          /\ req.events # <<>>
          /\ \A k \in 1..(Len(req.events) - 1) : req.events[k].type = "content"
          /\ req.fault = None => Last(req.events) = DoneEvent
          /\ req.fault # None => Last(req.events) = ErrorEvent(req.fault)

\* C5 witness: a stream whose call failed: a single error event and no sentinel
C5_Witness ==
    /\ req.pc = "closed" /\ req.fault # None /\ req.chunks = <<>>
    /\ req.events = <<ErrorEvent(req.fault)>>

\* C6 (as claimed): a failure of the provider call is returned as data in a
\* successful response by run_prompt and by translate_prompt alike.
C6_FailureIsData ==
    (req.fault # None /\ req.pc \in {"done", "closed"}) => req.response.status = 200

\* C6 (amended): run_prompt returns a provider failure as data, as the error field
\* of a 200 result or as the error event of a 200 stream; translate_prompt
\* catches it and answers 500 with the failure in the detail.
C6_FailureByEndpoint ==
    (req.fault # None /\ req.pc \in {"done", "closed"}) =>
        /\ (req.op = "run" /\ ~req.payload.stream) =>
              /\ req.response.status = 200
              /\ "error" \in DOMAIN req.response.body
              /\ req.response.body.error = <<LLMFailedPrefix, req.fault>>
        /\ (req.op = "run" /\ req.payload.stream) =>
              /\ req.response.status = 200
              /\ req.events # <<>>
              /\ Last(req.events) = ErrorEvent(req.fault)
        /\ req.op = "translate" =>
              /\ req.response.status = 500
              /\ req.response.detail = <<TranslateFailedPrefix, req.fault>>

\* C6 witness: a translation whose provider call raised
C6_Witness == req.op = "translate" /\ req.pc = "done" /\ req.fault # None

\* C7: a non-streaming run_prompt that called the provider returns a 200 result
\* whose result is the rendering of the effective template with the variables of
\* the request, which is also the text it sent, with an empty errors list; after a
\* failure the generated text is None and error describes the failure, after a
\* reply the generated text is the reply's and model is the model that was used.
C7_NonStreamingResult ==
    (req.op = "run" /\ req.pc = "done" /\ req.calls # <<>> /\ ~req.payload.stream) =>
        /\ req.response.status = 200
        /\ req.response.body.result = RenderOf(req).result
        /\ req.calls[1].content = RenderOf(req).result
        /\ req.response.body.errors = <<>>
        /\ req.fault # None =>
              /\ req.response.body.llm_response = None
              /\ "error" \in DOMAIN req.response.body
              /\ req.response.body.error = <<LLMFailedPrefix, req.fault>>
        /\ req.fault = None =>
              /\ req.response.body.llm_response =
                    IF req.reply.choices THEN req.reply.content ELSE ""
              /\ req.response.body.model = req.calls[1].model
              /\ "error" \notin DOMAIN req.response.body

\* C7 witness: a non-streaming execution whose provider call raised
C7_Witness ==
    /\ req.op = "run" /\ req.pc = "done" /\ req.calls # <<>> /\ ~req.payload.stream
    /\ req.fault # None

\* C8: without a credential, or without the provider integration, a rendering
\* that misses no variable ends the request: no provider call, no stream, and a
\* 200 result with the rendered text, empty errors and the mock placeholder.
C8_DryRun ==
    (/\ req.op = "run" /\ req.rendered /\ RenderOf(req).errors = <<>>
     /\ (~litellm \/ Falsy(req.payload.api_key))) =>
        /\ req.pc = "done"
        /\ req.calls = <<>>
        /\ req.events = <<>>
        /\ req.response.status = 200
        /\ "body" \in DOMAIN req.response
        /\ req.response.body.result = RenderOf(req).result
        /\ req.response.body.errors = <<>>
        /\ req.response.body.llm_response = MockResponse

\* C8 witness: a stream requested with a credential where litellm is not installed
C8_Witness ==
    /\ req.op = "run" /\ req.rendered /\ req.errors = <<>>
    /\ ~litellm /\ req.payload.api_key = "sk" /\ req.payload.stream

\* C9: a run_prompt for a slug that no prompt has, or whose prompt has no
\* version, answers 404 without rendering, without a provider call and without
\* a change of the store.
C9_NotFound ==
    [][(req.pc = "idle" /\ req'.op = "run") =>
         LET owners == {p \in DOMAIN prompts : prompts[p].slug = req'.slug}
             runnable == \E p \in owners : \E v \in DOMAIN versions :
                             versions[v].prompt_id = p
         IN  ~runnable =>
               /\ req'.pc = "done"
               /\ req'.response.status = 404
               /\ ~req'.rendered
               /\ req'.calls = <<>>
               /\ UNCHANGED storeVars]_vars

\* C9 witness: a 404 for a slug whose prompt exists and has no version
C9_Witness ==
    /\ req.op = "run" /\ req.pc = "done" /\ req.response.status = 404
    /\ \E p \in DOMAIN prompts :
          /\ prompts[p].slug = req.slug
          /\ \A v \in DOMAIN versions : versions[v].prompt_id # p

\* C18: translate_prompt answers 400 when the text or the credential is empty,
\* and 500 "litellm not installed" when both are given and litellm is missing;
\* in each of these cases it has returned without a provider call.
C18_TranslateRejects ==
    (req.op = "translate" /\ req.pc # "idle") =>
        /\ (Falsy(req.payload.text) \/ Falsy(req.payload.api_key)) =>
              /\ req.pc = "done"
              /\ req.response.status = 400
              /\ req.calls = <<>>
        /\ (~Falsy(req.payload.text) /\ ~Falsy(req.payload.api_key) /\ ~litellm) =>
              /\ req.pc = "done"
              /\ req.response.status = 500
              /\ req.response.detail = "litellm not installed"
              /\ req.calls = <<>>

\* C18 witness: a translation with a text and a credential where litellm is not
\* installed
C18_Witness ==
    /\ req.op = "translate" /\ req.pc = "done" /\ ~litellm
    /\ req.payload.text = "hello" /\ req.payload.api_key = "sk"
    /\ req.response.status = 500

ContentEvents(events) == SelectSeq(events, LAMBDA e : e.type = "content")

\* the chunks that carry text
TextChunks(chunks) == SelectSeq(chunks, LAMBDA c : c.choices /\ ~Falsy(c.content))

\* C19 (as claimed): the content events of a stream are the texts of all the
\* chunks the provider delivered, one event for each chunk, in their order.
C19_EventPerChunk ==
    req.op = "run" =>
        ContentEvents(req.events) =
            [k \in 1..Len(req.chunks) |-> ContentEvent(req.chunks[k].content)]

\* C19 (amended): the content events of a stream are the texts of the delivered
\* chunks that carry a non-empty text, one event for each, in their order; a
\* chunk whose text is empty yields no event.
C19_EventPerTextChunk ==
    req.op = "run" =>
        ContentEvents(req.events) =
            [k \in 1..Len(TextChunks(req.chunks)) |->
                ContentEvent(TextChunks(req.chunks)[k].content)]

\* C19 witness: a completed stream of a chunk without text followed by a chunk
\* with text: one content event and the sentinel
C19_Witness ==
    /\ req.pc = "closed" /\ req.fault = None
    /\ Len(req.chunks) = 2
    /\ req.chunks[1].choices /\ req.chunks[1].content = ""
    /\ req.chunks[2].content # ""
    /\ req.events = <<ContentEvent(req.chunks[2].content), DoneEvent>>

\* the template the store now holds for the slug of the request, NoneT if none
StoredTemplate(r) ==
    LET p == PromptBySlug(prompts, r.slug)
        v == IF p = NoId THEN NoId ELSE _get_latest_version(versions, p)
    IN  IF v = NoId THEN NoneT ELSE versions[v].compiled_template

\* C20: whatever has been committed to the store since the execution read its
\* version, every call it sends carries the rendering of the version it read
\* and the model chosen from that version's config, and a non-streaming
\* execution returns that rendering as result and that version's text as
\* template.
C20_ReadOnce ==
    (req.op = "run" /\ req.calls # <<>>) =>
        /\ \A k \in 1..Len(req.calls) :
              /\ req.calls[k].content = RenderOf(req).result
              /\ req.calls[k].model = SelectModel(req.payload.model, req.version.config_json)
        /\ (req.pc = "done" /\ ~req.payload.stream) =>
              /\ req.response.body.result = RenderOf(req).result
              /\ req.response.body.template =
                    EffectiveTemplate(req.version.compiled_template, Lang(req))

\* C20 witness: a non-streaming execution has returned the provider's reply
\* while the store holds another template than the one it read, whose
\* rendering differs from the result
C20_Witness ==
    /\ req.op = "run" /\ req.pc = "done" /\ req.calls # <<>> /\ ~req.payload.stream
    /\ req.fault = None
    /\ StoredTemplate(req) # NoneT
    /\ StoredTemplate(req) # req.version.compiled_template
    /\ req.response.body.result #
          _render_template(EffectiveTemplate(StoredTemplate(req), Lang(req)),
                           Variables(req)).result

(***************************************************************************)
(* Properties of version resolution (SpecLatest).                          *)
(***************************************************************************)
OwnVersions(r) ==
    {v \in DOMAIN versions : versions[v].prompt_id = PromptBySlug(prompts, r.slug)}

\* C14: run_prompt gets no version from _get_latest_version exactly when the
\* prompt has none (and answers 404); otherwise, the created_at of the versions
\* being distinct, the version it reads is the one with the greatest created_at,
\* wherever that version is stored.
C14_LatestVersion ==
    (req.op = "run" /\ req.pc = "done") =>
        /\ OwnVersions(req) = {} <=> req.response.status = 404
        /\ OwnVersions(req) # {} =>
              req.version = Snapshot(versions[
                  CHOOSE v \in OwnVersions(req) :
                      \A w \in OwnVersions(req) :
                          versions[w].created_at <= versions[v].created_at])

\* C14 witness: the prompt has three versions, the latest is stored between the
\* two others, and it is the one that was read
C14_Witness ==
    /\ req.op = "run" /\ req.pc = "done"
    /\ OwnVersions(req) = {1, 2, 3}
    /\ versions[2].created_at > versions[1].created_at
    /\ versions[2].created_at > versions[3].created_at
    /\ req.version = Snapshot(versions[2])

====
